---- MODULE Spec2Model ----
(***************************************************************************)
(* Calculator with secret vault: the PIN / lockout state machine of the    *)
(* SecretVault component, the PinSetup component, the IndexedDB-backed     *)
(* VaultStorage and the part of the Calculator that shows the vault.       *)
(*                                                                         *)
(* Time.  Every Date the program holds (PinConfig.lockoutUntil) is kept    *)
(* relative to the current instant, in minutes: the value n stands for the *)
(* instant "now + n minutes", and 0 for any instant that is not in the     *)
(* future.  The code only ever compares such a date with the current time  *)
(* (new Date() < lockoutUntil) or takes the positive distance to it, so    *)
(* nothing it does depends on more.  The passing of time (Advance, Tick)   *)
(* lowers every stored date.  The countdown lockoutTime is in seconds, as  *)
(* in the code.  The dates of a session (startTime, lastActivity) lie in   *)
(* the past and are kept as the minutes elapsed since, up to MaxIdle.      *)
(*                                                                         *)
(* Optional values (T | null) are sequences: <<>> is null, <<v>> is v.     *)
(* A PIN is the sequence of its characters, digits 0..9.                   *)
(*                                                                         *)
(* Async handlers are split at their awaits: a handler in flight is a task *)
(* record (its closure and the await it is suspended on), and one action   *)
(* resolves one await and runs the code up to the next one.  A store       *)
(* request commits when its await resolves.                                *)
(***************************************************************************)
EXTENDS Integers, Sequences, FiniteSets, TLC

\* ---------------------------------------------------------------- bounds
MaxAttemptsStored == 6      \* failed attempts are counted up to this value
MaxSessions == 2            \* session records created in one behaviour
MaxTasks == 2               \* slots for async handlers in flight
MaxDisplay == 1             \* digits the calculator display may hold
NumSalts == 1               \* distinct random salts hashPin may draw
MaxFiles == 1               \* files uploaded in one behaviour
MaxIdle == 2                \* minutes the dates of a session are followed back
MaxEncryptions == 2         \* direct calls of encryptFile in one behaviour
MaxKeyBytes == 2            \* length of the short byte arrays that are compared

\* ------------------------------------------------------ program constants
MaxAttempts == 5            \* newAttempts >= 5
LockoutMinutes == 15        \* 15 * 60 * 1000 ms
SecondsPerMinute == 60      \* 15 * 60 seconds of countdown
MinPinLength == 4
MaxPinLength == 20
GeneratedPinLength == 6      \* for (let i = 0; i < 6; i++)
NumDigits == 10             \* digits.length
SaltLength == 16            \* new Uint8Array(16), combined.slice(0, 16)
KeyLength == 32             \* { name: 'AES-GCM', length: 256 }, in bytes
Base64Pad == 64             \* '='
Base64Bad == 65             \* a character that is not base64

LockoutSeconds == LockoutMinutes * SecondsPerMinute

\* ------------------------------------------------------------- optionals
NULL == <<>>
Some(v) == <<v>>
IsNull(x) == x = <<>>
Val(x) == x[1]

Max(a, b) == IF a >= b THEN a ELSE b

\* ------------------------------------------------------------------ PINs
PinA == <<4, 8, 2, 1>>
PinB == <<1, 3, 5, 7>>
PinWeak == <<0, 0, 0, 0>>
PinShort == <<9, 0, 2>>
TypedPins == {PinA, PinB, PinWeak}
\* what is typed into the first input of PinSetup
SetupPins == TypedPins \cup {PinShort}
Salts == 1..NumSalts

\* The components are modelled with hashPin and verifyPin doing what their
\* code sets out to do: the raw bits of the derived key are obtained, stored
\* after the salt and compared.  What crypto.subtle.exportKey returns for
\* the key that generateKeyFromPin actually derives is followed byte by byte
\* in hashPinPromise and verifyPinPromise, under HashSpec.
\*
\* generateKeyFromPin + exportKey: the raw bytes of the PBKDF2 key derived
\* from (pin, salt); distinct (pin, salt) pairs give distinct keys.
generateKeyFromPin(pin, salt) == [pin |-> pin, salt |-> salt]

\* hashPin: salt || key, for the salt drawn
hashPin(pin, salt) == [salt |-> salt, key |-> generateKeyFromPin(pin, salt)]

\* verifyPin: re-derive with the stored salt and compare with the stored key
verifyPin(pin, storedHash) ==
    generateKeyFromPin(pin, storedHash.salt) = storedHash.key

\* PinValidator.isWeakPin: /^(.)\1+$/ or one of the anchored 4-digit runs
AllSame(pin) == Len(pin) >= 2 /\ \A i \in 1..Len(pin) : pin[i] = pin[1]
StartsWithRun(pin, first, step) ==
    /\ Len(pin) >= 4
    /\ \A i \in 1..4 : pin[i] = first + step * (i - 1)
isWeakPin_NoDescending(pin) ==
    \/ AllSame(pin)
    \/ \E first \in 0..6 : StartsWithRun(pin, first, 1)
isWeakPin(pin) ==
    \/ AllSame(pin)
    \/ \E first \in 0..6 : StartsWithRun(pin, first, 1)
    \/ \E first \in 3..9 : StartsWithRun(pin, first, 0 - 1)

validatePin_FirstError(pin) ==
    LET e1 == IF Len(pin) < MinPinLength THEN <<"too short">> ELSE <<>>
        e2 == IF Len(pin) > MaxPinLength THEN <<"too long">> ELSE <<>>
        e3 == IF Len(pin) = 0 \/ \E i \in 1..Len(pin) : pin[i] \notin 0..9
              THEN <<"not digits">> ELSE <<>>
        e4 == IF isWeakPin(pin) THEN <<"too weak">> ELSE <<>>
        errors == e1 \o e2 \o e3 \o e4
    IN [isValid |-> errors = <<>>,
        errors |-> IF errors = <<>> THEN <<>> ELSE <<errors[1]>>]
\* PinValidator.validatePin: the errors pushed, in order
validatePin(pin) ==
    LET e1 == IF Len(pin) < MinPinLength THEN <<"too short">> ELSE <<>>
        e2 == IF Len(pin) > MaxPinLength THEN <<"too long">> ELSE <<>>
        e3 == IF Len(pin) = 0 \/ \E i \in 1..Len(pin) : pin[i] \notin 0..9
              THEN <<"not digits">> ELSE <<>>
        e4 == IF isWeakPin(pin) THEN <<"too weak">> ELSE <<>>
        errors == e1 \o e2 \o e3 \o e4
    IN [isValid |-> errors = <<>>, errors |-> errors]

\* the error message shown: its text and, for "Invalid PIN", the number of
\* attempts remaining it quotes
ErrorMessage(text) == [text |-> text, remaining |-> 0]
NoError == ErrorMessage("")

\* ----------------------------------------------------------------- state
VARIABLES
    \* VaultStorage (IndexedDB), survives reloads
    dbPinConfig,     \* object store 'pinConfig', record 'main': null or PinConfig
    dbSessions,      \* object store 'sessions': sequence of VaultSession
    dbFiles,         \* object store 'files': set of VaultFile
    dbMetadata,      \* object store 'metadata': set of {key, value}
    storeUp,         \* whether IndexedDB requests currently succeed
    \* Calculator
    showVault,       \* Calculator.showVault: SecretVault is mounted
    display,         \* calculatorEngine.state.display, as a digit sequence
    \* SecretVault component state
    pinConfig, isUnlocked, currentPin, isLoading, error, attempts,
    isLockedOut, lockoutTime, currentSession, files,
    \* PinSetup component state
    psStep, psInitialPin, psLoading, psErrors,
    \* FileManager component state
    fmError, uploadProgress,
    \* async handlers in flight
    tasks,
    \* a method of EncryptionManager, PinValidator or VaultStorage called
    \* directly: the call, its arguments and what it returned or threw
    call,
    \* what the calls of encryptFile made directly have returned, in order
    encryptions

vars == <<dbPinConfig, dbSessions, dbFiles, dbMetadata, storeUp, showVault,
          display, pinConfig, isUnlocked, currentPin, isLoading, error,
          attempts, isLockedOut, lockoutTime, currentSession, files,
          psStep, psInitialPin, psLoading, psErrors,
          fmError, uploadProgress, tasks, call, encryptions>>

dbVars == <<dbPinConfig, dbSessions>>
dbFileVars == <<dbFiles, dbMetadata>>
calcVars == <<display>>
vaultVars == <<pinConfig, isUnlocked, currentPin, isLoading, error, attempts,
               isLockedOut, lockoutTime, currentSession>>
psVars == <<psStep, psInitialPin, psLoading, psErrors>>
fmVars == <<fmError, uploadProgress>>
\* the files: the two object stores, the list SecretVault holds and the
\* state of FileManager
fileVars == <<dbFiles, dbMetadata, files, fmError, uploadProgress>>
\* the direct calls of library methods
libVars == <<call, encryptions>>
\* everything the application holds: the stores and the components
appVars == <<dbVars, dbFileVars, storeUp, showVault, calcVars, vaultVars,
             files, psVars, fmVars, tasks>>

\* no method has been called directly
NoCall == [fn |-> "", args |-> <<>>, local |-> <<>>, result |-> <<>>]

Slots == 1..MaxTasks
\* a handler in flight: op is the handler, pc the await it is suspended on,
\* pin / cfg / sess what its closure captured (currentPin or newPin,
\* pinConfig, currentSession), upd and valid its locals updatedConfig
\* (newConfig) and isValid
\* (file and meta: the VaultFile and the {salt, iv} a FileManager handler
\* works on)
IdleTask == [op |-> "idle", pc |-> "", pin |-> <<>>, cfg |-> NULL,
             sess |-> NULL, upd |-> NULL, valid |-> FALSE,
             file |-> NULL, meta |-> NULL]
Idle == \A s \in Slots : tasks[s].op = "idle"
\* the slot a new handler is started in
FreeSlot == CHOOSE s \in Slots :
                /\ tasks[s].op = "idle"
                /\ \A t \in Slots : tasks[t].op = "idle" => s <= t

\* UI events are handled one at a time: a handler is started only when no
\* other handler is suspended on an await.
CanStart == Idle

Start(t) == tasks' = [tasks EXCEPT ![FreeSlot] = t]
Finish(s) == tasks' = [tasks EXCEPT ![s] = IdleTask]
Goto(s, t) == tasks' = [tasks EXCEPT ![s] = t]

\* a request to VaultStorage settles: ensureDB throws and the request's
\* onerror rejects while IndexedDB is failing
RequestSucceeds_Always == TRUE
RequestSucceeds == storeUp

\* ------------------------------------------------------------------ time
\* a past date d minutes later than it was: d more minutes ago
Ago(minutes, d) == IF minutes + d > MaxIdle THEN MaxIdle ELSE minutes + d
SessionLater(sess, d) ==
    [sess EXCEPT !.startTime = Ago(@, d), !.lastActivity = Ago(@, d)]
\* (a sequence of sessions, or the optional session of a component)
SessionsLater(sessions, d) ==
    [i \in 1..Len(sessions) |-> SessionLater(sessions[i], d)]

\* a date d minutes later than it was
Later(date, d) == IF IsNull(date) THEN NULL ELSE Some(Max(0, Val(date) - d))
ConfigLater(cfg, d) ==
    IF IsNull(cfg) THEN NULL
    ELSE Some([Val(cfg) EXCEPT !.lockoutUntil = Later(@, d)])
TaskLater(t, d) ==
    [t EXCEPT !.cfg = ConfigLater(@, d), !.upd = ConfigLater(@, d),
              !.sess = SessionsLater(@, d)]

\* new Date() < config.lockoutUntil
InFuture_Reversed(date) == ~IsNull(date) /\ Val(date) <= 0
InFuture(date) == ~IsNull(date) /\ Val(date) > 0

\* d minutes pass: every stored Date is d minutes nearer (or past)
TimePasses(d) ==
    /\ dbPinConfig' = ConfigLater(dbPinConfig, d)
    /\ pinConfig' = ConfigLater(pinConfig, d)
    /\ tasks' = [s \in Slots |-> TaskLater(tasks[s], d)]
    /\ dbSessions' = SessionsLater(dbSessions, d)
    /\ currentSession' = SessionsLater(currentSession, d)

\* ------------------------------------------------- component life cycle
\* useState initial values of SecretVault
VaultInitialState ==
    /\ pinConfig' = NULL
    /\ isUnlocked' = FALSE
    /\ currentPin' = <<>>
    /\ isLoading' = TRUE
    /\ error' = NoError
    /\ attempts' = 0
    /\ isLockedOut' = FALSE
    /\ lockoutTime' = 0
    /\ currentSession' = NULL
    /\ files' = {}

\* useState initial values of PinSetup
PinSetupInitialState ==
    /\ psStep' = "initial"
    /\ psInitialPin' = <<>>
    /\ psLoading' = FALSE
    /\ psErrors' = <<>>

\* useState initial values of FileManager
FileManagerInitialState ==
    /\ fmError' = ""
    /\ uploadProgress' = ""

\* the application when the page is first opened
AppInit ==
    /\ dbPinConfig = NULL
    /\ dbSessions = <<>>
    /\ dbFiles = {}
    /\ dbMetadata = {}
    /\ storeUp = TRUE
    /\ showVault = FALSE
    /\ display = <<0>>
    /\ pinConfig = NULL
    /\ isUnlocked = FALSE
    /\ currentPin = <<>>
    /\ isLoading = TRUE
    /\ error = NoError
    /\ attempts = 0
    /\ isLockedOut = FALSE
    /\ lockoutTime = 0
    /\ currentSession = NULL
    /\ files = {}
    /\ psStep = "initial"
    /\ psInitialPin = <<>>
    /\ psLoading = FALSE
    /\ psErrors = <<>>
    /\ fmError = ""
    /\ uploadProgress = ""
    /\ tasks = [s \in Slots |-> IdleTask]
    /\ encryptions = <<>>

Init == AppInit /\ call = NoCall

\* what the SecretVault render shows
ViewLoading == showVault /\ isLoading
ViewUnlocked == showVault /\ ~isLoading /\ isUnlocked
ViewPinSetup == showVault /\ ~isLoading /\ ~isUnlocked /\ IsNull(pinConfig)
ViewPinEntry == showVault /\ ~isLoading /\ ~isUnlocked /\ ~IsNull(pinConfig)
ViewPinInput == ViewPinEntry /\ ~isLockedOut
ViewLockedOut == ViewPinEntry /\ isLockedOut

\* the gesture fires onVaultActivated: SecretVault mounts and its mount
\* effect calls initializeVault, which awaits getPinConfig
Activate ==
    /\ ~showVault
    /\ CanStart
    /\ showVault' = TRUE
    /\ VaultInitialState
    /\ PinSetupInitialState
    /\ FileManagerInitialState
    /\ Start([IdleTask EXCEPT !.op = "init", !.pc = "getPinConfig"])
    /\ UNCHANGED libVars
    /\ UNCHANGED <<dbVars, dbFileVars, storeUp, calcVars>>

\* initializeVault after getPinConfig settles
InitializeVault(s) ==
    /\ tasks[s].op = "init"
    /\ IF RequestSucceeds
       THEN /\ pinConfig' = dbPinConfig
            /\ IF ~IsNull(dbPinConfig)
               THEN /\ IF InFuture(Val(dbPinConfig).lockoutUntil)
                       THEN /\ isLockedOut' = TRUE
                            /\ lockoutTime' =
                                 Val(Val(dbPinConfig).lockoutUntil) * SecondsPerMinute
                       ELSE UNCHANGED <<isLockedOut, lockoutTime>>
                    /\ attempts' = Val(dbPinConfig).attempts
               ELSE UNCHANGED <<isLockedOut, lockoutTime, attempts>>
            /\ UNCHANGED error
       ELSE /\ error' = ErrorMessage("Failed to initialize vault")
            /\ UNCHANGED <<pinConfig, isLockedOut, lockoutTime, attempts>>
    /\ isLoading' = FALSE
    /\ Finish(s)
    /\ UNCHANGED libVars
    /\ UNCHANGED <<dbVars, storeUp, showVault, calcVars, isUnlocked,
                   currentPin, currentSession, psVars, fileVars>>

\* the page is reloaded (or the app restarted): all in-memory state is lost,
\* the IndexedDB content stays
Reload ==
    /\ showVault \/ display # <<0>>
    /\ showVault' = FALSE
    /\ display' = <<0>>
    /\ VaultInitialState
    /\ PinSetupInitialState
    /\ FileManagerInitialState
    /\ tasks' = [s \in Slots |-> IdleTask]
    /\ UNCHANGED libVars
    /\ UNCHANGED <<dbVars, dbFileVars, storeUp>>

\* ------------------------------------------------------------ the clock
AdvanceSteps == {1, LockoutMinutes}

\* wall-clock time passes without the countdown interval firing.  An await
\* (a key derivation, an IndexedDB request) settles within the minute it was
\* issued in, so the minute changes only between handlers.
Advance(d) ==
    /\ Idle
    /\ TimePasses(d)
    /\ UNCHANGED libVars
    /\ UNCHANGED <<storeUp, showVault, calcVars, isUnlocked,
                   currentPin, isLoading, error, attempts, isLockedOut,
                   lockoutTime, psVars, fileVars>>

\* one callback of the countdown interval: the updater given to
\* setLockoutTime, which also clears isLockedOut when it reaches 0
countdownStep_NeverUnlocks(locked, prev) ==
    [locked |-> locked, time |-> Max(0, prev - 1)]
countdownStep(locked, prev) ==
    IF prev <= 1 THEN [locked |-> FALSE, time |-> 0]
    ELSE [locked |-> locked, time |-> prev - 1]

\* n callbacks, from the component state st = [locked, time]; the effect's
\* cleanup clears the interval once isLockedOut is false or lockoutTime is 0.
\* (The singleton sets only make each step's result a value before the next
\* step starts.)
RECURSIVE countdown(_, _)
countdown(n, st) ==
    IF n = 0 \/ ~st.locked \/ st.time <= 0 THEN st
    ELSE CHOOSE r \in {countdown(m, next) :
                          m \in {n - 1},
                          next \in {countdownStep(st.locked, st.time)}} : TRUE

\* one minute of the 1000 ms countdown interval: the interval exists while
\* isLockedOut && lockoutTime > 0; its callbacks fire no faster than the
\* clock runs
Tick ==
    /\ Idle
    /\ showVault
    /\ isLockedOut /\ lockoutTime > 0
    /\ \E r \in {countdown(SecondsPerMinute,
                             [locked |-> isLockedOut, time |-> lockoutTime])} :
          /\ isLockedOut' = r.locked
          /\ lockoutTime' = r.time
    /\ TimePasses(1)
    /\ UNCHANGED libVars
    /\ UNCHANGED <<storeUp, showVault, calcVars, isUnlocked,
                   currentPin, isLoading, error, attempts,
                   psVars, fileVars>>

\* ------------------------------------------------------------ the store
\* IndexedDB starts failing (open or request error) / works again
StoreFail ==
    /\ storeUp
    /\ storeUp' = FALSE
    /\ UNCHANGED libVars
    /\ UNCHANGED <<dbVars, showVault, calcVars, vaultVars, psVars, fileVars,
                   tasks>>

StoreRecover ==
    /\ ~storeUp
    /\ storeUp' = TRUE
    /\ UNCHANGED libVars
    /\ UNCHANGED <<dbVars, showVault, calcVars, vaultVars, psVars, fileVars,
                   tasks>>

\* ---------------------------------------------------------------- unmount
\* Calculator stops rendering SecretVault (onClose): its state and the
\* state of the PinSetup inside it are discarded
Unmount ==
    /\ showVault' = FALSE
    /\ VaultInitialState
    /\ PinSetupInitialState
    /\ FileManagerInitialState

\* -------------------------------------------------------------- PinSetup
\* "Continue": validateAndProceed on the PIN typed into the first input
validateAndProceed_NoCheck(p) ==
    /\ ViewPinSetup /\ CanStart
    /\ psStep = "initial"
    /\ p # <<>>
    /\ psInitialPin' = p
    /\ psStep' = "confirm"
    /\ psErrors' = <<>>
    /\ UNCHANGED libVars
    /\ UNCHANGED <<dbVars, storeUp, showVault, calcVars, vaultVars,
                   psLoading, fileVars, tasks>>
validateAndProceed(p) ==
    /\ ViewPinSetup /\ CanStart
    /\ psStep = "initial"
    /\ p # <<>>
    /\ psInitialPin' = p
    /\ psStep' = IF validatePin(p).isValid THEN "confirm" ELSE "initial"
    /\ psErrors' = validatePin(p).errors
    /\ UNCHANGED libVars
    /\ UNCHANGED <<dbVars, storeUp, showVault, calcVars, vaultVars,
                   psLoading, fileVars, tasks>>

\* "Start Over": handleReset
handleReset ==
    /\ ViewPinSetup /\ CanStart
    /\ psStep = "confirm" /\ ~psLoading
    /\ psStep' = "initial"
    /\ psInitialPin' = <<>>
    /\ psErrors' = <<>>
    /\ UNCHANGED libVars
    /\ UNCHANGED <<dbVars, storeUp, showVault, calcVars, vaultVars, psLoading,
                   fileVars, tasks>>

\* "Confirm": handleConfirmPin on the PIN typed into the second input; on a
\* match it calls onPinSetup = handlePinSetup, which awaits hashPin
handleConfirmPin(c) ==
    /\ ViewPinSetup /\ CanStart
    /\ psStep = "confirm" /\ ~psLoading
    /\ c # <<>>
    /\ Len(dbSessions) < MaxSessions
    /\ IF psInitialPin # c
       THEN /\ psErrors' = <<"PINs do not match">>
            /\ UNCHANGED <<psLoading, tasks>>
       ELSE /\ psLoading' = TRUE
            /\ psErrors' = <<>>
            /\ Start([IdleTask EXCEPT !.op = "setup", !.pc = "hashPin",
                                      !.pin = psInitialPin])
    /\ UNCHANGED libVars
    /\ UNCHANGED <<dbVars, storeUp, showVault, calcVars, vaultVars,
                   psStep, psInitialPin, fileVars>>

\* handlePinSetup after hashPin: newConfig is built, storePinConfig awaited
PinHashed(s) ==
    /\ tasks[s].op = "setup" /\ tasks[s].pc = "hashPin"
    /\ \E salt \in Salts :
         Goto(s, [tasks[s] EXCEPT
                    !.pc = "storePinConfig",
                    !.upd = Some([hash |-> hashPin(tasks[s].pin, salt),
                                  attempts |-> 0,
                                  lockoutUntil |-> NULL])])
    /\ UNCHANGED libVars
    /\ UNCHANGED <<dbVars, storeUp, showVault, calcVars, vaultVars, psVars,
                   fileVars>>

\* the message the catch of the handler sets
CatchError(op) ==
    IF op = "setup" THEN "Failed to setup PIN" ELSE "PIN verification failed"

\* handlePinSetup after storePinConfig: the put commits, then setPinConfig,
\* setCurrentPin and createSession; a failed put goes to the catch
SetupStored(s) ==
    /\ tasks[s].op = "setup" /\ tasks[s].pc = "storePinConfig"
    /\ IF RequestSucceeds
       THEN /\ dbPinConfig' = tasks[s].upd
            /\ pinConfig' = tasks[s].upd
            /\ currentPin' = tasks[s].pin
            /\ PinSetupInitialState
            /\ Goto(s, [tasks[s] EXCEPT !.pc = "createSession"])
            /\ UNCHANGED error
       ELSE /\ error' = ErrorMessage(CatchError("setup"))
            /\ Finish(s)
            /\ UNCHANGED <<dbPinConfig, pinConfig, currentPin, psVars>>
    /\ UNCHANGED libVars
    /\ UNCHANGED <<dbSessions, storeUp, showVault, calcVars, isUnlocked,
                   isLoading, attempts, isLockedOut, lockoutTime,
                   currentSession, fileVars>>

\* handlePinSetup when the await of hashPin rejects: the catch
HashFailed(s) ==
    /\ tasks[s].op = "setup" /\ tasks[s].pc = "hashPin"
    /\ error' = ErrorMessage(CatchError("setup"))
    /\ Finish(s)
    /\ UNCHANGED libVars
    /\ UNCHANGED <<dbVars, storeUp, showVault, calcVars, pinConfig,
                   isUnlocked, currentPin, isLoading, attempts, isLockedOut,
                   lockoutTime, currentSession, psVars, fileVars>>

\* VaultStorage.createSession: a new active session under a fresh id
NewSession_Inactive ==
    [id |-> Len(dbSessions) + 1, startTime |-> 0, lastActivity |-> 0,
     isActive |-> FALSE]
NewSession ==
    [id |-> Len(dbSessions) + 1, startTime |-> 0, lastActivity |-> 0,
     isActive |-> TRUE]

\* handlePinSetup / handlePinSubmit after createSession: the session is
\* stored, then setCurrentSession, setIsUnlocked(true) and getAllFiles
SessionCreated(s) ==
    /\ tasks[s].op \in {"setup", "submit"} /\ tasks[s].pc = "createSession"
    /\ IF RequestSucceeds
       THEN /\ dbSessions' = Append(dbSessions, NewSession)
            /\ currentSession' = Some(NewSession)
            /\ isUnlocked' = TRUE
            /\ Goto(s, [tasks[s] EXCEPT !.pc = "getAllFiles"])
            /\ UNCHANGED error
       ELSE /\ error' = ErrorMessage(CatchError(tasks[s].op))
            /\ Finish(s)
            /\ UNCHANGED <<dbSessions, currentSession, isUnlocked>>
    /\ UNCHANGED libVars
    /\ UNCHANGED <<dbPinConfig, storeUp, showVault, calcVars, pinConfig,
                   currentPin, isLoading, attempts, isLockedOut, lockoutTime,
                   psVars, fileVars>>

\* handlePinSetup / handlePinSubmit after getAllFiles
FilesLoaded(s) ==
    /\ tasks[s].op \in {"setup", "submit"} /\ tasks[s].pc = "getAllFiles"
    /\ IF RequestSucceeds
       THEN /\ files' = dbFiles
            /\ UNCHANGED error
       ELSE /\ error' = ErrorMessage(CatchError(tasks[s].op))
            /\ UNCHANGED files
    /\ Finish(s)
    /\ UNCHANGED libVars
    /\ UNCHANGED <<dbVars, dbFileVars, storeUp, showVault, calcVars, pinConfig,
                   isUnlocked, currentPin, isLoading, attempts, isLockedOut,
                   lockoutTime, currentSession, psVars, fmVars>>

\* ------------------------------------------------------------- PIN entry
\* onChange of the PIN input: setCurrentPin
TypePin(p) ==
    /\ ViewPinInput /\ CanStart
    /\ p # currentPin
    /\ currentPin' = p
    /\ UNCHANGED libVars
    /\ UNCHANGED <<dbVars, storeUp, showVault, calcVars, pinConfig,
                   isUnlocked, isLoading, error, attempts, isLockedOut,
                   lockoutTime, currentSession, psVars, fileVars, tasks>>

\* "Unlock Vault" or Enter: handlePinSubmit up to the await of verifyPin
handlePinSubmit ==
    /\ ViewPinInput /\ CanStart
    /\ currentPin # <<>>
    /\ IF verifyPin(currentPin, Val(pinConfig).hash)
       THEN Len(dbSessions) < MaxSessions
       ELSE Val(pinConfig).attempts < MaxAttemptsStored
    /\ error' = NoError
    /\ Start([IdleTask EXCEPT !.op = "submit", !.pc = "verifyPin",
                              !.pin = currentPin, !.cfg = pinConfig])
    /\ UNCHANGED libVars
    /\ UNCHANGED <<dbVars, storeUp, showVault, calcVars, pinConfig,
                   isUnlocked, currentPin, isLoading, attempts, isLockedOut,
                   lockoutTime, currentSession, psVars, fileVars>>

\* Neither the PIN input nor the "Unlock Vault" button is disabled while a
\* handlePinSubmit is suspended on an await: the input can be edited ...
TypePinDuringSubmit(p) ==
    /\ ViewPinInput
    /\ \E s \in Slots : tasks[s].op = "submit"
    /\ p # currentPin
    /\ currentPin' = p
    /\ UNCHANGED libVars
    /\ UNCHANGED <<dbVars, storeUp, showVault, calcVars, pinConfig,
                   isUnlocked, isLoading, error, attempts, isLockedOut,
                   lockoutTime, currentSession, psVars, fileVars, tasks>>
\* ... and a second handlePinSubmit can be started, which reads the
\* pinConfig and currentPin of the current render.  (The bounds are those
\* of handlePinSubmit, looked at when the handler starts: the submits in
\* flight together can take the store one session beyond MaxSessions.)
handlePinSubmitOverlapping ==
    /\ ViewPinInput
    /\ \E s \in Slots : tasks[s].op = "submit"
    /\ \E s \in Slots : tasks[s].op = "idle"
    /\ currentPin # <<>>
    /\ IF verifyPin(currentPin, Val(pinConfig).hash)
       THEN Len(dbSessions) < MaxSessions
       ELSE Val(pinConfig).attempts < MaxAttemptsStored
    /\ error' = NoError
    /\ Start([IdleTask EXCEPT !.op = "submit", !.pc = "verifyPin",
                              !.pin = currentPin, !.cfg = pinConfig])
    /\ UNCHANGED libVars
    /\ UNCHANGED <<dbVars, storeUp, showVault, calcVars, pinConfig,
                   isUnlocked, currentPin, isLoading, attempts, isLockedOut,
                   lockoutTime, currentSession, psVars, fileVars>>

\* if (newAttempts >= 5)
ShouldLockOut_Above(newAttempts) == newAttempts > MaxAttempts
ShouldLockOut_Exactly(newAttempts) == newAttempts = MaxAttempts
ShouldLockOut(newAttempts) == newAttempts >= MaxAttempts

\* handlePinSubmit after verifyPin: updatedConfig is built (and on the fifth
\* failure the lockout is set in the component), storePinConfig awaited
PinVerified(s) ==
    /\ tasks[s].op = "submit" /\ tasks[s].pc = "verifyPin"
    /\ LET cfg == Val(tasks[s].cfg)
           isValid == verifyPin(tasks[s].pin, cfg.hash)
           newAttempts == cfg.attempts + 1
           lockout == ShouldLockOut(newAttempts)
           updatedConfig ==
               IF isValid
               THEN [cfg EXCEPT !.attempts = 0, !.lockoutUntil = NULL]
               ELSE [cfg EXCEPT !.attempts = newAttempts,
                                !.lockoutUntil = IF lockout
                                                 THEN Some(LockoutMinutes)
                                                 ELSE NULL]
       IN /\ IF ~isValid /\ lockout
             THEN /\ isLockedOut' = TRUE
                  /\ lockoutTime' = LockoutSeconds
             ELSE UNCHANGED <<isLockedOut, lockoutTime>>
          /\ Goto(s, [tasks[s] EXCEPT !.pc = "storePinConfig",
                                      !.valid = isValid,
                                      !.upd = Some(updatedConfig)])
    /\ UNCHANGED libVars
    /\ UNCHANGED <<dbVars, storeUp, showVault, calcVars, pinConfig,
                   isUnlocked, currentPin, isLoading, error, attempts,
                   currentSession, psVars, fileVars>>

\* `Invalid PIN. ${5 - newAttempts} attempts remaining.`
InvalidPinError(newAttempts) ==
    [text |-> "Invalid PIN", remaining |-> MaxAttempts - newAttempts]

\* handlePinSubmit after storePinConfig: the put commits, then setPinConfig
\* and either createSession or the report of the failure
SubmitStored(s) ==
    /\ tasks[s].op = "submit" /\ tasks[s].pc = "storePinConfig"
    /\ IF ~RequestSucceeds
       THEN /\ error' = ErrorMessage(CatchError("submit"))
            /\ Finish(s)
            /\ UNCHANGED <<dbPinConfig, pinConfig, attempts, currentPin>>
       ELSE /\ dbPinConfig' = tasks[s].upd
            /\ pinConfig' = tasks[s].upd
            /\ IF tasks[s].valid
               THEN /\ Goto(s, [tasks[s] EXCEPT !.pc = "createSession"])
                    /\ UNCHANGED <<attempts, error, currentPin>>
               ELSE /\ attempts' = Val(tasks[s].upd).attempts
                    /\ error' = InvalidPinError(Val(tasks[s].upd).attempts)
                    /\ currentPin' = <<>>
                    /\ Finish(s)
    /\ UNCHANGED libVars
    /\ UNCHANGED <<dbSessions, storeUp, showVault, calcVars, isUnlocked,
                   isLoading, isLockedOut, lockoutTime, currentSession,
                   psVars, fileVars>>

\* ----------------------------------------------------------------- close
\* VaultStorage.endSession: the record is kept and marked inactive
endSession(sessions, id) ==
    [i \in 1..Len(sessions) |->
        IF sessions[i].id = id THEN [sessions[i] EXCEPT !.isActive = FALSE]
        ELSE sessions[i]]

\* "Close Vault" is offered next to the FileManager and is not disabled
\* while one of its handlers runs: handleClose is started when no handler
\* of SecretVault itself is in flight.
VaultOps == {"init", "setup", "submit", "close"}
CanClose == \A s \in Slots : tasks[s].op \notin VaultOps

\* "Close Vault" / "Back to Calculator": handleClose; with a current
\* session it awaits endSession first, otherwise it calls onClose at once
handleClose ==
    /\ ViewUnlocked \/ ViewPinEntry
    /\ CanClose
    /\ IF ~IsNull(currentSession)
       THEN /\ Start([IdleTask EXCEPT !.op = "close", !.pc = "endSession",
                                      !.sess = currentSession])
            /\ UNCHANGED <<showVault, vaultVars, files, psVars, fmVars>>
       ELSE /\ Unmount
            /\ UNCHANGED tasks
    /\ UNCHANGED libVars
    /\ UNCHANGED <<dbVars, dbFileVars, storeUp, calcVars>>

\* handleClose after endSession: onClose; a failed request rejects the
\* handler before onClose is reached
SessionEnded(s) ==
    /\ tasks[s].op = "close" /\ tasks[s].pc = "endSession"
    /\ IF RequestSucceeds
       THEN /\ dbSessions' = endSession(dbSessions, Val(tasks[s].sess).id)
            /\ Unmount
       ELSE UNCHANGED <<dbSessions, showVault, vaultVars, files, psVars,
                        fmVars>>
    /\ Finish(s)
    /\ UNCHANGED libVars
    /\ UNCHANGED <<dbPinConfig, dbFileVars, storeUp, calcVars>>

\* --------------------------------------------- the session store, called
\* VaultStorage.updateSessionActivity: get and put in one transaction; the
\* record found gets lastActivity = now
updateSessionActivity_Reactivates(sessions, id) ==
    [i \in 1..Len(sessions) |->
        IF sessions[i].id = id
        THEN [sessions[i] EXCEPT !.lastActivity = 0, !.isActive = TRUE]
        ELSE sessions[i]]
updateSessionActivity(sessions, id) ==
    [i \in 1..Len(sessions) |->
        IF sessions[i].id = id THEN [sessions[i] EXCEPT !.lastActivity = 0]
        ELSE sessions[i]]

cleanupExpiredSessions_AtCutoff(sessions, timeoutMinutes) ==
    [i \in 1..Len(sessions) |->
        IF sessions[i].lastActivity >= timeoutMinutes
        THEN [sessions[i] EXCEPT !.isActive = FALSE]
        ELSE sessions[i]]
\* VaultStorage.cleanupExpiredSessions: one cursor over the store; a record
\* with lastActivity < now - timeoutMinutes is updated with isActive false
cleanupExpiredSessions(sessions, timeoutMinutes) ==
    [i \in 1..Len(sessions) |->
        IF sessions[i].lastActivity > timeoutMinutes
        THEN [sessions[i] EXCEPT !.isActive = FALSE]
        ELSE sessions[i]]

SessionIds == 1..MaxSessions
Timeouts == 0..(MaxIdle - 1)

\* the public session methods of VaultStorage called directly; each is one
\* IndexedDB transaction, and a failed request changes nothing
CallCreateSession ==
    /\ Len(dbSessions) < MaxSessions
    /\ RequestSucceeds
    /\ dbSessions' = Append(dbSessions, NewSession)
    /\ UNCHANGED libVars
    /\ UNCHANGED <<dbPinConfig, dbFileVars, storeUp, showVault, calcVars,
                   vaultVars, files, psVars, fmVars, tasks>>

CallUpdateSessionActivity(id) ==
    /\ RequestSucceeds
    /\ dbSessions' = updateSessionActivity(dbSessions, id)
    /\ UNCHANGED libVars
    /\ UNCHANGED <<dbPinConfig, dbFileVars, storeUp, showVault, calcVars,
                   vaultVars, files, psVars, fmVars, tasks>>

CallEndSession(id) ==
    /\ RequestSucceeds
    /\ dbSessions' = endSession(dbSessions, id)
    /\ UNCHANGED libVars
    /\ UNCHANGED <<dbPinConfig, dbFileVars, storeUp, showVault, calcVars,
                   vaultVars, files, psVars, fmVars, tasks>>

CallCleanupExpiredSessions(timeoutMinutes) ==
    /\ RequestSucceeds
    /\ dbSessions' = cleanupExpiredSessions(dbSessions, timeoutMinutes)
    /\ UNCHANGED libVars
    /\ UNCHANGED <<dbPinConfig, dbFileVars, storeUp, showVault, calcVars,
                   vaultVars, files, psVars, fmVars, tasks>>

\* ----------------------------------------------------------- FileManager
\* crypto.getRandomValues gives 128-bit ids and salts and 96-bit nonces,
\* taken as never repeating: the values drawn for the n-th upload are named
\* by n, and the salts of encryptFile differ from those of hashPin.
FileIds == 1..MaxFiles
usedIds == {r.key : r \in dbMetadata} \cup {f.id : f \in dbFiles}
generateSecureId == Cardinality(usedIds) + 1
encryptSalt(n) == NumSalts + n
encryptIv(n) == n

encryptFile_FixedSaltAndIv(fileData, pin, n) ==
    [encryptedData |-> [key |-> generateKeyFromPin(pin, encryptSalt(1)),
                        iv |-> encryptIv(1), data |-> fileData],
     salt |-> encryptSalt(1),
     iv |-> encryptIv(1)]
\* EncryptionManager.encryptFile: AES-GCM under the key derived from the PIN
\* and a new salt, with a new iv; the ciphertext is the term
\* [key, iv, data], which only that key and iv open
encryptFile(fileData, pin, n) ==
    [encryptedData |-> [key |-> generateKeyFromPin(pin, encryptSalt(n)),
                        iv |-> encryptIv(n), data |-> fileData],
     salt |-> encryptSalt(n),
     iv |-> encryptIv(n)]

decryptFile_NewSalt(encryptedData, pin, salt, iv) ==
    IF generateKeyFromPin(pin, encryptSalt(MaxEncryptions + 1))
           = encryptedData.key
         /\ iv = encryptedData.iv
    THEN Some(encryptedData.data) ELSE NULL
decryptFile_IgnoresIv(encryptedData, pin, salt, iv) ==
    IF generateKeyFromPin(pin, salt) = encryptedData.key
    THEN Some(encryptedData.data) ELSE NULL
\* EncryptionManager.decryptFile: the data, or null when the authentication
\* tag does not verify (the function throws)
decryptFile(encryptedData, pin, salt, iv) ==
    IF generateKeyFromPin(pin, salt) = encryptedData.key
         /\ iv = encryptedData.iv
    THEN Some(encryptedData.data) ELSE NULL

\* VaultStorage.setMetadata: put of {key, value}
setMetadata(store, key, value) ==
    {r \in store : r.key # key} \cup {[key |-> key, value |-> value]}
\* VaultStorage.getMetadata: result ? result.value : null
getMetadata(store, key) ==
    IF \E r \in store : r.key = key
    THEN (CHOOSE r \in store : r.key = key).value
    ELSE NULL
\* VaultStorage.storeFile: put under the file's id
storeFile(store, file) == {f \in store : f.id # file.id} \cup {file}
\* VaultStorage.deleteFile
deleteFile(store, fileId) == {f \in store : f.id # fileId}

\* state setters of SecretVault and FileManager do nothing once the
\* component is unmounted
SetFiles(v) == files' = IF showVault THEN v ELSE files
SetFmError(v) == fmError' = IF showVault THEN v ELSE fmError
SetUploadProgress(v) ==
    uploadProgress' = IF showVault THEN v ELSE uploadProgress

\* a file is dropped or chosen: handleFileUpload with one file, up to the
\* await of file.arrayBuffer()
handleFileUpload ==
    /\ ViewUnlocked /\ CanStart
    /\ generateSecureId \in FileIds
    /\ fmError' = ""
    /\ uploadProgress' = "uploading"
    /\ Start([IdleTask EXCEPT
                 !.op = "upload", !.pc = "arrayBuffer", !.pin = currentPin,
                 !.file = Some([id |-> generateSecureId,
                                encryptedData |-> NULL])])
    /\ UNCHANGED libVars
    /\ UNCHANGED <<dbVars, dbFileVars, storeUp, showVault, calcVars,
                   vaultVars, files, psVars>>

\* handleFileUpload after arrayBuffer: encryptFile awaited
FileRead(s) ==
    /\ tasks[s].op = "upload" /\ tasks[s].pc = "arrayBuffer"
    /\ SetUploadProgress("encrypting")
    /\ Goto(s, [tasks[s] EXCEPT !.pc = "encryptFile"])
    /\ UNCHANGED libVars
    /\ UNCHANGED <<dbVars, dbFileVars, storeUp, showVault, calcVars,
                   vaultVars, files, psVars, fmError>>

\* handleFileUpload after encryptFile: vaultFile and metadata are built,
\* setMetadata awaited
FileEncrypted_KeepsKey(s) ==
    /\ tasks[s].op = "upload" /\ tasks[s].pc = "encryptFile"
    /\ LET fileId == Val(tasks[s].file).id
           enc == encryptFile("bytes", tasks[s].pin, fileId)
       IN Goto(s, [tasks[s] EXCEPT
                     !.pc = "setMetadata",
                     !.file = Some([id |-> fileId,
                                    encryptedData |-> Some(enc.encryptedData)]),
                     !.meta = Some([salt |-> enc.salt, iv |-> enc.iv,
                                    key |-> enc.encryptedData.key])])
    /\ UNCHANGED libVars
    /\ UNCHANGED <<dbVars, dbFileVars, storeUp, showVault, calcVars,
                   vaultVars, files, psVars, fmVars>>
FileEncrypted(s) ==
    /\ tasks[s].op = "upload" /\ tasks[s].pc = "encryptFile"
    /\ LET fileId == Val(tasks[s].file).id
           enc == encryptFile("bytes", tasks[s].pin, fileId)
       IN Goto(s, [tasks[s] EXCEPT
                     !.pc = "setMetadata",
                     !.file = Some([id |-> fileId,
                                    encryptedData |-> Some(enc.encryptedData)]),
                     !.meta = Some([salt |-> enc.salt, iv |-> enc.iv])])
    /\ UNCHANGED libVars
    /\ UNCHANGED <<dbVars, dbFileVars, storeUp, showVault, calcVars,
                   vaultVars, files, psVars, fmVars>>

\* handleFileUpload when the await of encryptFile rejects (crypto.subtle
\* fails to derive the key or to encrypt): the catch marks the upload as
\* failed
EncryptFailed_Continues(s) ==
    /\ tasks[s].op = "upload" /\ tasks[s].pc = "encryptFile"
    /\ Goto(s, [tasks[s] EXCEPT !.pc = "setMetadata"])
    /\ UNCHANGED libVars
    /\ UNCHANGED <<dbVars, dbFileVars, storeUp, showVault, calcVars,
                   vaultVars, files, psVars, fmVars>>
EncryptFailed(s) ==
    /\ tasks[s].op = "upload" /\ tasks[s].pc = "encryptFile"
    /\ SetUploadProgress("error")
    /\ Finish(s)
    /\ UNCHANGED libVars
    /\ UNCHANGED <<dbVars, dbFileVars, storeUp, showVault, calcVars,
                   vaultVars, files, psVars, fmError>>

\* handleFileUpload after setMetadata: the metadata record is stored,
\* storeFile awaited; a failed request goes to the catch
MetadataStored_NotWritten(s) ==
    /\ tasks[s].op = "upload" /\ tasks[s].pc = "setMetadata"
    /\ Goto(s, [tasks[s] EXCEPT !.pc = "storeFile"])
    /\ UNCHANGED libVars
    /\ UNCHANGED <<dbVars, dbFileVars, storeUp, showVault, calcVars,
                   vaultVars, files, psVars, fmVars>>
MetadataStored(s) ==
    /\ tasks[s].op = "upload" /\ tasks[s].pc = "setMetadata"
    /\ IF RequestSucceeds
       THEN /\ dbMetadata' = setMetadata(dbMetadata, Val(tasks[s].file).id,
                                         tasks[s].meta)
            /\ Goto(s, [tasks[s] EXCEPT !.pc = "storeFile"])
            /\ UNCHANGED uploadProgress
       ELSE /\ SetUploadProgress("error")
            /\ Finish(s)
            /\ UNCHANGED dbMetadata
    /\ UNCHANGED libVars
    /\ UNCHANGED <<dbVars, dbFiles, storeUp, showVault, calcVars,
                   vaultVars, files, psVars, fmError>>

\* handleFileUpload after storeFile: the file record is stored, getAllFiles
\* awaited
FileStored(s) ==
    /\ tasks[s].op = "upload" /\ tasks[s].pc = "storeFile"
    /\ IF RequestSucceeds
       THEN /\ dbFiles' = storeFile(dbFiles, Val(tasks[s].file))
            /\ SetUploadProgress("complete")
            /\ Goto(s, [tasks[s] EXCEPT !.pc = "getAllFiles"])
       ELSE /\ SetUploadProgress("error")
            /\ Finish(s)
            /\ UNCHANGED dbFiles
    /\ UNCHANGED libVars
    /\ UNCHANGED <<dbVars, dbMetadata, storeUp, showVault, calcVars,
                   vaultVars, files, psVars, fmError>>

\* the message the catch of handleDelete sets
DeleteError == "Failed to delete file"
\* the message the catch of handleDownload sets
DownloadError == "Failed to download file. Please check your PIN."

\* handleFileUpload / handleDelete after getAllFiles: onFilesUpdate
FilesUpdated(s) ==
    /\ tasks[s].op \in {"upload", "delete"} /\ tasks[s].pc = "getAllFiles"
    /\ IF RequestSucceeds
       THEN /\ SetFiles(dbFiles)
            /\ UNCHANGED fmVars
       ELSE /\ IF tasks[s].op = "upload"
               THEN SetUploadProgress("error") /\ UNCHANGED fmError
               ELSE SetFmError(DeleteError) /\ UNCHANGED uploadProgress
            /\ UNCHANGED files
    /\ Finish(s)
    /\ UNCHANGED libVars
    /\ UNCHANGED <<dbVars, dbFileVars, storeUp, showVault, calcVars,
                   vaultVars, psVars>>

\* the timer set at the end of handleFileUpload: finished uploads leave the
\* progress list
UploadsCleared ==
    /\ showVault
    /\ uploadProgress \in {"complete", "error"}
    /\ \A s \in Slots : tasks[s].op # "upload"
    /\ uploadProgress' = ""
    /\ UNCHANGED libVars
    /\ UNCHANGED <<dbVars, dbFileVars, storeUp, showVault, calcVars,
                   vaultVars, files, psVars, fmError, tasks>>

\* "Download" on a file of the list: handleDownload up to the await of
\* getMetadata
handleDownload(fileId) ==
    /\ ViewUnlocked /\ CanStart
    /\ \E file \in files :
         /\ file.id = fileId
         /\ Start([IdleTask EXCEPT !.op = "download", !.pc = "getMetadata",
                                   !.pin = currentPin, !.file = Some(file)])
    /\ fmError' = ""
    /\ UNCHANGED libVars
    /\ UNCHANGED <<dbVars, dbFileVars, storeUp, showVault, calcVars,
                   vaultVars, files, psVars, uploadProgress>>

\* handleDownload after getMetadata: a failed request or no metadata goes
\* to the catch, otherwise decryptFile is awaited
MetadataRead(s) ==
    /\ tasks[s].op = "download" /\ tasks[s].pc = "getMetadata"
    /\ LET metadata == getMetadata(dbMetadata, Val(tasks[s].file).id)
       IN IF RequestSucceeds /\ ~IsNull(metadata)
          THEN /\ Goto(s, [tasks[s] EXCEPT !.pc = "decryptFile",
                                           !.meta = metadata])
               /\ UNCHANGED fmError
          ELSE /\ SetFmError(DownloadError)
               /\ Finish(s)
    /\ UNCHANGED libVars
    /\ UNCHANGED <<dbVars, dbFileVars, storeUp, showVault, calcVars,
                   vaultVars, files, psVars, uploadProgress>>

\* handleDownload after decryptFile: the blob is handed to the browser, or
\* the catch reports the failure
FileDecrypted_Silent(s) ==
    /\ tasks[s].op = "download" /\ tasks[s].pc = "decryptFile"
    /\ Finish(s)
    /\ UNCHANGED libVars
    /\ UNCHANGED <<dbVars, dbFileVars, storeUp, showVault, calcVars,
                   vaultVars, files, psVars, fmVars>>
FileDecrypted(s) ==
    /\ tasks[s].op = "download" /\ tasks[s].pc = "decryptFile"
    /\ LET decryptedData ==
               decryptFile(Val(Val(tasks[s].file).encryptedData),
                           tasks[s].pin,
                           Val(tasks[s].meta).salt, Val(tasks[s].meta).iv)
       IN IF IsNull(decryptedData)
          THEN SetFmError(DownloadError)
          ELSE UNCHANGED fmError
    /\ Finish(s)
    /\ UNCHANGED libVars
    /\ UNCHANGED <<dbVars, dbFileVars, storeUp, showVault, calcVars,
                   vaultVars, files, psVars, uploadProgress>>

\* "Delete" on a file of the list, confirmed: handleDelete up to the await
\* of deleteFile
handleDelete(fileId) ==
    /\ ViewUnlocked /\ CanStart
    /\ \E file \in files :
         /\ file.id = fileId
         /\ Start([IdleTask EXCEPT !.op = "delete", !.pc = "deleteFile",
                                   !.file = Some(file)])
    /\ UNCHANGED libVars
    /\ UNCHANGED <<dbVars, dbFileVars, storeUp, showVault, calcVars,
                   vaultVars, files, psVars, fmVars>>

\* handleDelete after deleteFile: the file record is gone, setMetadata(key,
\* null) awaited
FileDeleted(s) ==
    /\ tasks[s].op = "delete" /\ tasks[s].pc = "deleteFile"
    /\ IF RequestSucceeds
       THEN /\ dbFiles' = deleteFile(dbFiles, Val(tasks[s].file).id)
            /\ Goto(s, [tasks[s] EXCEPT !.pc = "setMetadata"])
            /\ UNCHANGED fmError
       ELSE /\ SetFmError(DeleteError)
            /\ Finish(s)
            /\ UNCHANGED dbFiles
    /\ UNCHANGED libVars
    /\ UNCHANGED <<dbVars, dbMetadata, storeUp, showVault, calcVars,
                   vaultVars, files, psVars, uploadProgress>>

\* handleDelete after setMetadata(key, null): the metadata record now holds
\* the value null, getAllFiles awaited
MetadataCleared(s) ==
    /\ tasks[s].op = "delete" /\ tasks[s].pc = "setMetadata"
    /\ IF RequestSucceeds
       THEN /\ dbMetadata' = setMetadata(dbMetadata, Val(tasks[s].file).id,
                                         NULL)
            /\ Goto(s, [tasks[s] EXCEPT !.pc = "getAllFiles"])
            /\ UNCHANGED fmError
       ELSE /\ SetFmError(DeleteError)
            /\ Finish(s)
            /\ UNCHANGED dbMetadata
    /\ UNCHANGED libVars
    /\ UNCHANGED <<dbVars, dbFiles, storeUp, showVault, calcVars,
                   vaultVars, files, psVars, uploadProgress>>

\* ------------------------------------- VaultStorage called directly
\* the Promise a direct call returned: pending, fulfilled or rejected
Pending == <<>>
Fulfilled(v) == <<[ok |-> TRUE, value |-> v]>>
Rejected(e) == <<[ok |-> FALSE, value |-> e]>>
\* no direct call is in progress
CallSettled == call.fn = "" \/ call.result # Pending

\* request.error / the error ensureDB rejects with: a DOMException, which
\* carries its name and nothing about the request that failed
RequestError == [name |-> "UnknownError"]

\* the argument of clearAllData's stores.forEach
stores == <<"files", "pinConfig", "sessions", "metadata">>

\* records put into the object stores by direct calls
SomePinConfig ==
    [hash |-> hashPin(PinA, 1), attempts |-> 0, lockoutUntil |-> NULL]
SomeFile(id) ==
    [id |-> id,
     encryptedData |-> Some(encryptFile("bytes", PinA, id).encryptedData)]
SomeMetadata(id) ==
    Some([salt |-> encryptFile("bytes", PinA, id).salt,
          iv |-> encryptFile("bytes", PinA, id).iv])

\* storePinConfig, storeFile and setMetadata called directly; each is one
\* IndexedDB transaction, and waits for a transaction that is open
CallStorePinConfig ==
    /\ CallSettled /\ RequestSucceeds
    /\ dbPinConfig' = Some(SomePinConfig)
    /\ UNCHANGED <<dbSessions, dbFileVars, storeUp, showVault, calcVars,
                   vaultVars, files, psVars, fmVars, tasks, call, encryptions>>

CallStoreFile(id) ==
    /\ CallSettled /\ RequestSucceeds
    /\ dbFiles' = storeFile(dbFiles, SomeFile(id))
    /\ UNCHANGED <<dbVars, dbMetadata, storeUp, showVault, calcVars,
                   vaultVars, files, psVars, fmVars, tasks, call, encryptions>>

CallSetMetadata(id) ==
    /\ CallSettled /\ RequestSucceeds
    /\ dbMetadata' = setMetadata(dbMetadata, id, SomeMetadata(id))
    /\ UNCHANGED <<dbVars, dbFiles, storeUp, showVault, calcVars,
                   vaultVars, files, psVars, fmVars, tasks, call, encryptions>>

\* createSession called directly when no transaction is open
CallCreateSessionAlone ==
    /\ CallSettled
    /\ CallCreateSession

\* updateSessionActivity and endSession called directly when no
\* transaction is open, and a minute passing then
CallUpdateSessionActivityAlone(id) ==
    /\ CallSettled
    /\ CallUpdateSessionActivity(id)
CallEndSessionAlone(id) ==
    /\ CallSettled
    /\ CallEndSession(id)
AdvanceBetweenCalls ==
    /\ CallSettled
    /\ Advance(1)

\* cleanupExpiredSessions(timeoutMinutes) up to the return of its Promise:
\* ensureDB is awaited, then the transaction on 'sessions' is opened
CleanupStarted(timeoutMinutes) ==
    /\ CallSettled
    /\ call' = [fn |-> "cleanupExpiredSessions",
                args |-> <<timeoutMinutes>>, local |-> <<>>,
                result |-> IF RequestSucceeds THEN Pending
                           ELSE Rejected(RequestError)]
    /\ UNCHANGED <<appVars, encryptions>>
\* the cursor of cleanupExpiredSessions has passed over the store (within
\* the minute of the call): resolve(); a failed cursor request rejects and
\* the transaction is rolled back
CleanupSettles ==
    /\ call.fn = "cleanupExpiredSessions" /\ call.result = Pending
    /\ IF RequestSucceeds
       THEN /\ dbSessions' = cleanupExpiredSessions(dbSessions, call.args[1])
            /\ call' = [call EXCEPT !.result = Fulfilled(TRUE)]
       ELSE /\ call' = [call EXCEPT !.result = Rejected(RequestError)]
            /\ UNCHANGED dbSessions
    /\ UNCHANGED <<dbPinConfig, dbFileVars, storeUp, showVault, calcVars,
                   vaultVars, files, psVars, fmVars, tasks, encryptions>>

\* clearAllData up to the return of its Promise: ensureDB is awaited (it
\* rejects when the database cannot be opened), then one transaction over
\* the four stores is opened and a clear request is made on each
CallClearAllData ==
    /\ CallSettled
    /\ call' = [fn |-> "clearAllData", args |-> <<>>,
                local |-> [completed |-> 0],
                result |-> IF RequestSucceeds THEN Pending
                           ELSE Rejected(RequestError)]
    /\ UNCHANGED <<dbVars, dbFileVars, storeUp, showVault, calcVars,
                   vaultVars, files, psVars, fmVars, tasks, encryptions>>

\* the next clear request of the transaction settles.  onsuccess is
\* onStoreCleared, which resolves at the fourth success, and the transaction
\* commits: the four stores are empty.  onerror rejects with request.error;
\* the error is not handled further, so the transaction aborts and nothing is
\* cleared (the requests left then fail too, and their reject does nothing).
ClearRequestSettles ==
    /\ call.fn = "clearAllData" /\ call.result = Pending
    /\ IF RequestSucceeds
       THEN LET completed == call.local.completed + 1
            IN IF completed = Len(stores)
               THEN /\ call' = [call EXCEPT !.local.completed = completed,
                                            !.result = Fulfilled("")]
                    /\ dbFiles' = {}
                    /\ dbPinConfig' = NULL
                    /\ dbSessions' = <<>>
                    /\ dbMetadata' = {}
               ELSE /\ call' = [call EXCEPT !.local.completed = completed]
                    /\ UNCHANGED <<dbVars, dbFileVars>>
       ELSE /\ call' = [call EXCEPT !.result = Rejected(RequestError)]
            /\ UNCHANGED <<dbVars, dbFileVars>>
    /\ UNCHANGED <<storeUp, showVault, calcVars, vaultVars, files, psVars,
                   fmVars, tasks, encryptions>>

\* ------------------------------------ EncryptionManager called directly
CipherPins == {PinA, PinB}
Payloads == {"bytes", "other"}

\* the Error decryptFile throws from its catch
DecryptionError ==
    [message |-> "Decryption failed - invalid PIN or corrupted data"]

\* a ciphertext some of whose bits were changed: AES-GCM verifies its tag
\* under no key
Corrupted(encryptedData) ==
    [encryptedData EXCEPT !.key = [pin |-> <<>>, salt |-> 0]]

\* what a caller can pass to decryptFile: the ciphertexts, salts and ivs
\* that encryptFile returns, and modified ones (a salt and an iv that no
\* encryption has drawn)
Ciphertexts ==
    LET made == {encryptFile(b, p, n).encryptedData :
                    b \in Payloads, p \in CipherPins, n \in 1..MaxEncryptions}
    IN made \cup {Corrupted(c) : c \in made}
CipherSalts == {encryptSalt(n) : n \in 1..(MaxEncryptions + 1)}
CipherIvs == {encryptIv(n) : n \in 1..(MaxEncryptions + 1)}

\* encryptFile(fileData, pin) called directly: the call draws its own salt
\* (generateKeyFromPin without a salt) and iv
CallEncryptFile(fileData, pin) ==
    /\ CallSettled
    /\ Len(encryptions) < MaxEncryptions
    /\ LET r == encryptFile(fileData, pin, Len(encryptions) + 1)
       IN /\ call' = [fn |-> "encryptFile", args |-> <<fileData, pin>>,
                      local |-> <<>>, result |-> Fulfilled(r)]
          /\ encryptions' = Append(encryptions, r)
    /\ UNCHANGED appVars

\* decryptFile called directly with a ciphertext that an encryption has
\* returned, or a modification of it
CallDecryptFile(encryptedData, pin, salt, iv) ==
    /\ CallSettled
    /\ \E i \in 1..Len(encryptions) :
          encryptedData \in {encryptions[i].encryptedData,
                             Corrupted(encryptions[i].encryptedData)}
    /\ LET decryptedData == decryptFile(encryptedData, pin, salt, iv)
       IN call' = [fn |-> "decryptFile",
                   args |-> <<encryptedData, pin, salt, iv>>,
                   local |-> <<>>,
                   result |-> IF IsNull(decryptedData)
                              THEN Rejected(DecryptionError)
                              ELSE Fulfilled(Val(decryptedData))]
    /\ UNCHANGED <<appVars, encryptions>>

\* ----------------------------------- hashPin and verifyPin, byte by byte
\* A base64 string is the sequence of its characters: 0..63 for the
\* alphabet A-Z a-z 0-9 + /, Base64Pad for '=' and Base64Bad for any other
\* character.

\* btoa of the binary string of the bytes
RECURSIVE arrayBufferToBase64(_)
arrayBufferToBase64(buffer) ==
    LET n == Len(buffer)
        c1 == buffer[1] \div 4
        c2 == (buffer[1] % 4) * 16
        c3 == (buffer[2] % 16) * 4
    IN IF n = 0 THEN <<>>
       ELSE IF n = 1 THEN <<c1, c2, Base64Pad, Base64Pad>>
       ELSE IF n = 2
            THEN <<c1, c2 + (buffer[2] \div 16), c3, Base64Pad>>
       ELSE <<c1, c2 + (buffer[2] \div 16), c3 + (buffer[3] \div 64),
              buffer[3] % 64>>
            \o arrayBufferToBase64(SubSeq(buffer, 4, n))

\* the bytes of base64 characters that carry no padding
RECURSIVE DecodeBase64(_)
DecodeBase64(chars) ==
    LET n == Len(chars)
        b1 == (chars[1] * 4) + (chars[2] \div 16)
        b2 == ((chars[2] % 16) * 16) + (chars[3] \div 4)
    IN IF n = 0 THEN <<>>
       ELSE IF n = 2 THEN <<b1>>
       ELSE IF n = 3 THEN <<b1, b2>>
       ELSE <<b1, b2, ((chars[3] % 4) * 64) + chars[4]>>
            \o DecodeBase64(SubSeq(chars, 5, n))

\* atob and the copy of its binary string into bytes: null when atob throws
\* (a character outside the alphabet, padding that is not at the end of a
\* string of a multiple of 4 characters, or a length of 1 modulo 4)
base64ToArrayBuffer(base64) ==
    LET n == Len(base64)
        padding == IF n % 4 # 0 \/ n = 0 \/ base64[n] # Base64Pad THEN 0
                   ELSE IF base64[n - 1] = Base64Pad THEN 2 ELSE 1
        data == SubSeq(base64, 1, n - padding)
    IN IF Len(data) % 4 = 1 \/ \E i \in 1..Len(data) : data[i] \notin 0..63
       THEN NULL
       ELSE Some(DecodeBase64(data))

\* crypto.subtle.deriveKey in generateKeyFromPin: a CryptoKey that is not
\* extractable.  Its bits are those PBKDF2 gives for (pin, salt), taken as
\* collision-free: an encoding of the PIN and the salt.
deriveKey(pin, salt) ==
    [extractable |-> FALSE,
     bits |-> [i \in 1..KeyLength |->
                 IF i <= Len(pin) THEN pin[i] + 1
                 ELSE IF i = SaltLength THEN Len(salt)
                 ELSE IF i > SaltLength /\ i - SaltLength <= Len(salt)
                      THEN salt[i - SaltLength]
                 ELSE 0]]

\* crypto.subtle.exportKey('raw', key): the bits of an extractable key; for
\* a key that is not extractable the call is rejected with an
\* InvalidAccessError (null here)
exportKey(key) == IF key.extractable THEN Some(key.bits) ELSE NULL
InvalidAccessError == [name |-> "InvalidAccessError"]

\* the random salt of hashPin named k, as bytes
SaltBytes(k) == [i \in 1..SaltLength |-> k]

\* hashPin with the salt it drew, as the Promise it returns: the exported
\* key is awaited, and a rejection is not caught
hashPinPromise(pin, salt) ==
    LET keyData == exportKey(deriveKey(pin, salt))
    IN IF IsNull(keyData) THEN Rejected(InvalidAccessError)
       ELSE Fulfilled(arrayBufferToBase64(salt \o Val(keyData)))

\* a ^ b and a | b on bytes
RECURSIVE BitXor(_, _)
BitXor(a, b) ==
    IF a = 0 /\ b = 0 THEN 0
    ELSE (((a % 2) + (b % 2)) % 2) + 2 * BitXor(a \div 2, b \div 2)
RECURSIVE BitOr(_, _)
BitOr(a, b) ==
    IF a = 0 /\ b = 0 THEN 0
    ELSE Max(a % 2, b % 2) + (2 * BitOr(a \div 2, b \div 2))

\* the comparison of verifyPin, from the length test to the return: the
\* value returned and the number of times the loop body ran
RECURSIVE CompareLoop_ShortCircuit(_, _, _, _)
CompareLoop_ShortCircuit(newKeyArray, storedKeyArray, i, result) ==
    IF i > Len(newKeyArray) \/ result # 0
    THEN [result |-> result = 0, steps |-> i - 1]
    ELSE CompareLoop_ShortCircuit(
             newKeyArray, storedKeyArray, i + 1,
             BitOr(result, BitXor(newKeyArray[i], storedKeyArray[i])))
RECURSIVE CompareLoop(_, _, _, _)
CompareLoop(newKeyArray, storedKeyArray, i, result) ==
    IF i > Len(newKeyArray)
    THEN [result |-> result = 0, steps |-> i - 1]
    ELSE CompareLoop(newKeyArray, storedKeyArray, i + 1,
                     BitOr(result, BitXor(newKeyArray[i], storedKeyArray[i])))
compareKeyData(newKeyArray, storedKeyArray) ==
    IF Len(newKeyArray) # Len(storedKeyArray)
    THEN [result |-> FALSE, steps |-> 0]
    ELSE CompareLoop(newKeyArray, storedKeyArray, 1, 0)

\* verifyPin as the Promise it returns: whatever is thrown inside its try
\* (by atob, by exportKey) is caught and false is returned
verifyPinPromise_NoCatch(pin, storedHash) ==
    LET combined == base64ToArrayBuffer(storedHash)
    IN IF IsNull(combined) THEN Rejected([name |-> "InvalidCharacterError"])
       ELSE Rejected(InvalidAccessError)
verifyPinPromise(pin, storedHash) ==
    LET combined == base64ToArrayBuffer(storedHash)
    IN IF IsNull(combined) THEN Fulfilled(FALSE)
       ELSE LET n == Len(Val(combined))
                salt == SubSeq(Val(combined), 1,
                               IF n < SaltLength THEN n ELSE SaltLength)
                storedKeyData == SubSeq(Val(combined), SaltLength + 1, n)
                keyData == exportKey(deriveKey(pin, salt))
            IN IF IsNull(keyData) THEN Fulfilled(FALSE)
               ELSE Fulfilled(compareKeyData(Val(keyData),
                                             storedKeyData).result)

\* what hashPin is specified to return for (pin, salt): the base64 of the
\* salt followed by the raw bits of the derived key
SaltedHash(pin, salt) ==
    arrayBufferToBase64(salt \o deriveKey(pin, salt).bits)

\* stored hashes passed to verifyPin: the salted hash of PinA, that hash with
\* a character that is not base64, cut to a length atob rejects, with a key
\* part of 31 and of 0 bytes, shorter than a salt, and the empty string
StoredHashes ==
    LET h == SaltedHash(PinA, SaltBytes(1))
        bytes == SaltBytes(1) \o deriveKey(PinA, SaltBytes(1)).bits
    IN {h,
        [h EXCEPT ![5] = Base64Bad],
        SubSeq(h, 1, Len(h) - 3),
        arrayBufferToBase64(SubSeq(bytes, 1, SaltLength + KeyLength - 1)),
        arrayBufferToBase64(SubSeq(bytes, 1, SaltLength)),
        arrayBufferToBase64(SubSeq(bytes, 1, 3)),
        <<>>}

\* byte arrays the comparison is applied to
KeyArrays ==
    LET short == UNION {[1..n -> {0, 1, 255}] : n \in 0..MaxKeyBytes}
    IN short \cup {deriveKey(p, SaltBytes(1)).bits : p \in CipherPins}

\* hashPin(pin) called directly; it draws its salt
CallHashPin(pin, k) ==
    /\ CallSettled
    /\ call' = [fn |-> "hashPin", args |-> <<pin>>, local |-> <<>>,
                result |-> hashPinPromise(pin, SaltBytes(k))]
    /\ UNCHANGED <<appVars, encryptions>>

\* verifyPin(pin, storedHash) called directly
CallVerifyPin(pin, storedHash) ==
    /\ CallSettled
    /\ call' = [fn |-> "verifyPin", args |-> <<pin, storedHash>>,
                local |-> <<>>, result |-> verifyPinPromise(pin, storedHash)]
    /\ UNCHANGED <<appVars, encryptions>>

\* the comparison of verifyPin applied to two byte arrays
CallCompareKeyData(newKeyArray, storedKeyArray) ==
    /\ CallSettled
    /\ call' = [fn |-> "compareKeyData",
                args |-> <<newKeyArray, storedKeyArray>>,
                local |-> compareKeyData(newKeyArray, storedKeyArray),
                result |-> Fulfilled(
                    compareKeyData(newKeyArray, storedKeyArray).result)]
    /\ UNCHANGED <<appVars, encryptions>>

\* ------------------------------------------ PinValidator called directly
\* a character of a candidate string that is not a digit
NotADigit == 10

\* candidate strings passed to validatePin: every string of four digits,
\* and strings that are empty, short, long, of 20 and 21 characters, of one
\* character repeated, starting with a run, and with characters that are not
\* digits
Candidates ==
    [1..4 -> 0..9]
    \cup {<<>>, <<5>>, <<5, 5>>, PinShort, <<1, 2, 3>>,
          <<0, 1, 2, 3, 3>>, <<4, 3, 2, 1, 0, 9>>, <<2, 0, 1, 2, 3>>,
          <<7, 7, 7, 7, 7, 7>>, <<7, 7, 7, 7, 7, 1>>,
          [i \in 1..MaxPinLength |-> IF i % 2 = 0 THEN 4 ELSE 8],
          [i \in 1..(MaxPinLength + 1) |-> IF i % 2 = 0 THEN 4 ELSE 8],
          [i \in 1..(MaxPinLength + 1) |-> 3],
          [i \in 1..(MaxPinLength + 1) |-> i % 10],
          [i \in 1..(MaxPinLength + 1) |-> NotADigit],
          <<NotADigit>>, <<NotADigit, NotADigit, NotADigit>>,
          <<1, 3, NotADigit, 7>>, <<1, 2, 3, 4, NotADigit>>}

\* the bytes crypto.getRandomValues(new Uint8Array(1))[0] may give
RandomBytes == {0, 1, 2, 13}
\* the values an element of a Uint8Array can take, and those among them for
\* which digits[byte % digits.length] is the given digit
MaxByte == 255
ByteValues == 0..MaxByte
BytesDrawing(digit) == {byte \in ByteValues : byte % NumDigits = digit}

\* validatePin(pin) is called
ValidateCall(pin) ==
    [fn |-> "validatePin", args |-> <<pin>>, local |-> <<>>,
     result |-> Pending]
\* generateSecurePin() is called: pin = ''
GenerateCall ==
    [fn |-> "generateSecurePin", args |-> <<>>,
     local |-> [pin |-> <<>>, discarded |-> FALSE], result |-> Pending]

\* validatePin returns
ValidatePinReturns ==
    /\ call.fn = "validatePin" /\ call.result = Pending
    /\ call' = [call EXCEPT !.result = Fulfilled(validatePin(call.args[1]))]
    /\ UNCHANGED <<appVars, encryptions>>

\* one pass of the loop of generateSecurePin: pin += digits[byte % 10]
DrawDigit(byte) ==
    /\ call.fn = "generateSecurePin" /\ call.result = Pending
    /\ Len(call.local.pin) < GeneratedPinLength
    /\ call' = [call EXCEPT
                  !.local.pin = Append(@, byte % NumDigits)]
    /\ UNCHANGED <<appVars, encryptions>>

\* generateSecurePin after its loop: a weak pin is dropped and
\* generateSecurePin is called again, which starts from pin = ''; any other
\* pin is returned.  (local.discarded records that a pin was dropped; the
\* depth of the recursion is not followed.)
CandidateChecked_NoRetry ==
    /\ call.fn = "generateSecurePin" /\ call.result = Pending
    /\ Len(call.local.pin) = GeneratedPinLength
    /\ call' = [call EXCEPT !.result = Fulfilled(call.local.pin)]
    /\ UNCHANGED <<appVars, encryptions>>
CandidateChecked ==
    /\ call.fn = "generateSecurePin" /\ call.result = Pending
    /\ Len(call.local.pin) = GeneratedPinLength
    /\ IF isWeakPin(call.local.pin)
       THEN call' = [call EXCEPT !.local = [pin |-> <<>>,
                                            discarded |-> TRUE]]
       ELSE call' = [call EXCEPT !.result = Fulfilled(call.local.pin)]
    /\ UNCHANGED <<appVars, encryptions>>

\* --------------------------------- createBackup and restoreFromBackup
\* A JavaScript value as far as JSON.stringify tells values apart: what kind
\* of value it is and its content as text
JsValue(kind, data) == [kind |-> kind, data |-> data]
JsNull == JsValue("null", "")

\* what JSON.stringify writes for one value: a Date through its toJSON, as
\* the string of its ISO text; an ArrayBuffer, which has no enumerable
\* property, as {}; a Uint8Array as the object of its indices; a string,
\* number, boolean or null as itself
toJSON(value) ==
    CASE value.kind = "Date" -> JsValue("string", value.data)
      [] value.kind = "ArrayBuffer" -> JsValue("object", "")
      [] value.kind = "Uint8Array" -> JsValue("object", value.data)
      [] OTHER -> value
stringifyObject(object) == [k \in DOMAIN object |-> toJSON(object[k])]
\* JSON.stringify(vaultData) for data of the shape exportData returns; the
\* text is the term of what it denotes
stringify(vaultData) ==
    [files |-> [i \in DOMAIN vaultData.files |->
                   stringifyObject(vaultData.files[i])],
     pinConfig |-> [i \in DOMAIN vaultData.pinConfig |->
                       stringifyObject(vaultData.pinConfig[i])],
     metadata |-> toJSON(vaultData.metadata),
     exportDate |-> toJSON(vaultData.exportDate),
     version |-> toJSON(vaultData.version)]
\* JSON.parse: the values the text denotes, which are strings, numbers,
\* booleans, null, objects and arrays
parse(text) == text

\* VaultStorage.exportData: the file records, the PinConfig record (or
\* null, the empty sequence) and the vaultSettings metadata, with the date
\* of the export as ISO text and the version
exportData(allFiles, config, settings) ==
    [files |-> allFiles,
     pinConfig |-> config,
     metadata |-> settings,
     exportDate |-> JsValue("string", "2026-01-01T00:00:00.000Z"),
     version |-> JsValue("string", "1.0")]

\* a file record as handleFileUpload stores it, and the PinConfig record as
\* handlePinSetup and the failure branch of handlePinSubmit store it
StoredFile ==
    [id |-> JsValue("string", "1"),
     name |-> JsValue("string", "a.txt"),
     size |-> JsValue("number", "5"),
     type |-> JsValue("string", "text/plain"),
     uploadDate |-> JsValue("Date", "2025-06-01T10:00:00.000Z"),
     encryptedData |-> JsValue("ArrayBuffer", "7f,03,a1"),
     category |-> JsValue("string", "documents")]
StoredConfig(lockoutUntil) ==
    [hash |-> JsValue("string", "c2FsdGtleQ=="),
     attempts |-> JsValue("number", "0"),
     lockoutUntil |-> lockoutUntil,
     isFirstTime |-> JsValue("boolean", "false"),
     id |-> JsValue("string", "main")]
VaultStates ==
    {exportData(<<>>, <<>>, JsNull),
     exportData(<<>>, <<StoredConfig(JsNull)>>, JsNull),
     exportData(<<>>,
                <<StoredConfig(JsValue("Date", "2025-06-01T10:30:00.000Z"))>>,
                JsNull),
     exportData(<<StoredFile>>, <<StoredConfig(JsNull)>>, JsNull)}

\* EncryptionManager.createBackup: the data as JSON text, encrypted by
\* encryptText (encryptFile of the encoded text; ciphertext, salt and iv in
\* base64), in an envelope that is written as JSON and then in base64.  The
\* string returned is the term of the envelope it encodes; version and
\* encrypted are optional because a string passed to restoreFromBackup may
\* lack them
createBackup(vaultData, pin, n) ==
    LET e == encryptFile(stringify(vaultData), pin, n)
    IN [json |-> TRUE,
        version |-> Some("1.0"),
        encrypted |-> Some(e.encryptedData),
        salt |-> e.salt,
        iv |-> e.iv]

\* the Errors thrown in the try block of restoreFromBackup, and the one its
\* catch throws instead of any of them
SyntaxError == [message |-> "SyntaxError"]
InvalidBackupFormat == [message |-> "Invalid backup format"]
RestoreError ==
    [message |-> "Failed to restore backup - invalid data or wrong PIN"]

\* the try block of restoreFromBackup
restoreFromBackupTry(backupString, pin) ==
    IF ~backupString.json
    THEN Rejected(SyntaxError)
    ELSE IF IsNull(backupString.version) \/ IsNull(backupString.encrypted)
    THEN Rejected(InvalidBackupFormat)
    ELSE LET decryptedData == decryptFile(Val(backupString.encrypted), pin,
                                          backupString.salt, backupString.iv)
         IN IF IsNull(decryptedData)
            THEN Rejected(DecryptionError)
            ELSE Fulfilled(parse(Val(decryptedData)))
\* EncryptionManager.restoreFromBackup: whatever the try block throws, the
\* catch throws the same new Error
restoreFromBackup(backupString, pin) ==
    LET tried == restoreFromBackupTry(backupString, pin)
    IN IF Val(tried).ok THEN tried ELSE Rejected(RestoreError)

\* what a caller can do to a backup string before passing it back: nothing,
\* drop the version, drop the ciphertext, change bits of the ciphertext,
\* or cut the string so that it is no JSON any more
Envelopes(backupString) ==
    {backupString,
     [backupString EXCEPT !.version = NULL],
     [backupString EXCEPT !.encrypted = NULL],
     [backupString EXCEPT !.encrypted = Some(Corrupted(Val(@)))],
     [backupString EXCEPT !.json = FALSE]}
BackupStrings ==
    UNION {Envelopes(createBackup(vaultData, pin, n)) :
              vaultData \in VaultStates, pin \in CipherPins,
              n \in 1..MaxEncryptions}

\* createBackup(vaultData, pin) called directly: it draws its salt and iv
CallCreateBackup(vaultData, pin) ==
    /\ CallSettled
    /\ Len(encryptions) < MaxEncryptions
    /\ LET n == Len(encryptions) + 1
       IN /\ call' = [fn |-> "createBackup", args |-> <<vaultData, pin>>,
                      local |-> <<>>,
                      result |-> Fulfilled(createBackup(vaultData, pin, n))]
          /\ encryptions' =
                 Append(encryptions,
                        encryptFile(stringify(vaultData), pin, n))
    /\ UNCHANGED appVars

\* restoreFromBackup called directly with a string that createBackup has
\* returned, as it is or changed
CallRestoreFromBackup(backupString, pin) ==
    /\ CallSettled
    /\ \E i \in 1..Len(encryptions) :
          /\ backupString.salt = encryptions[i].salt
          /\ backupString.encrypted
                \in {NULL, Some(encryptions[i].encryptedData),
                     Some(Corrupted(encryptions[i].encryptedData))}
    /\ call' = [fn |-> "restoreFromBackup", args |-> <<backupString, pin>>,
                local |-> <<>>,
                result |-> restoreFromBackup(backupString, pin)]
    /\ UNCHANGED <<appVars, encryptions>>

\* ------------------------------------------------------------ calculator
KeyDigits == {7}

\* CalculatorEngine.inputDigit
inputDigit(d) == IF display = <<0>> THEN <<d>> ELSE Append(display, d)

\* the document keydown listener of Calculator, a digit key
KeyDigit(d) ==
    /\ Len(inputDigit(d)) <= MaxDisplay
    /\ display' = inputDigit(d)
    /\ UNCHANGED libVars
    /\ UNCHANGED <<dbVars, storeUp, showVault, vaultVars, psVars, fileVars,
                   tasks>>

\* the document keydown listener of Calculator, Escape: calculatorEngine.clear
KeyEscape ==
    /\ display # <<0>>
    /\ display' = <<0>>
    /\ UNCHANGED libVars
    /\ UNCHANGED <<dbVars, storeUp, showVault, vaultVars, psVars, fileVars,
                   tasks>>

\* A digit key is pressed on the keyboard: the keydown event is dispatched.
\* Calculator stays mounted while it renders the vault, so its listener on
\* document is registered then too.
KeyPressed(d) ==
    /\ CallSettled
    /\ Len(inputDigit(d)) <= MaxDisplay
    /\ call' = [fn |-> "keydown", args |-> <<d>>,
                local |-> [defaultPrevented |-> FALSE], result |-> Pending]
    /\ UNCHANGED <<appVars, encryptions>>
\* event.preventDefault()
preventDefault(event) == [event EXCEPT !.defaultPrevented = TRUE]
\* the event has bubbled to document: handleKeyboard calls preventDefault
\* and, for a digit, calculatorEngine.inputDigit; then the browser performs
\* the default action of the key unless it was prevented: with the PIN
\* input in focus the digit is entered and onChange sets currentPin
KeyHandled ==
    /\ call.fn = "keydown" /\ call.result = Pending
    /\ LET event == preventDefault(call.local)
       IN /\ display' = inputDigit(call.args[1])
          /\ currentPin' = IF ViewPinInput /\ ~event.defaultPrevented
                           THEN Append(currentPin, call.args[1])
                           ELSE currentPin
          /\ call' = [call EXCEPT !.local = event,
                                  !.result = Fulfilled(event.defaultPrevented)]
    /\ UNCHANGED <<dbVars, storeUp, showVault, pinConfig, isUnlocked,
                   isLoading, error, attempts, isLockedOut, lockoutTime,
                   currentSession, psVars, fileVars, tasks, encryptions>>

\* a digit button of the calculator keypad: handleDigit
handleDigit(d) ==
    /\ ~showVault
    /\ Len(inputDigit(d)) <= MaxDisplay
    /\ display' = inputDigit(d)
    /\ UNCHANGED libVars
    /\ UNCHANGED <<dbVars, storeUp, showVault, vaultVars, psVars, fileVars,
                   tasks>>

Next ==
    \/ Activate
    \/ \E s \in Slots : InitializeVault(s)
    \/ Reload
    \/ \E d \in AdvanceSteps : Advance(d)
    \/ Tick
    \/ StoreFail
    \/ StoreRecover
    \/ \E p \in SetupPins : validateAndProceed(p)
    \/ handleReset
    \/ \E c \in TypedPins : handleConfirmPin(c)
    \/ \E s \in Slots : PinHashed(s)
    \/ \E s \in Slots : SetupStored(s)
    \/ \E s \in Slots : SessionCreated(s)
    \/ \E s \in Slots : FilesLoaded(s)
    \/ \E p \in TypedPins \cup {<<>>} : TypePin(p)
    \/ handlePinSubmit
    \/ \E s \in Slots : PinVerified(s)
    \/ \E s \in Slots : SubmitStored(s)
    \/ handleClose
    \/ \E s \in Slots : SessionEnded(s)
    \/ \E d \in KeyDigits : KeyDigit(d)
    \/ KeyEscape
    \/ \E d \in KeyDigits : handleDigit(d)

Spec == Init /\ [][Next]_vars

\* the vault with its FileManager: setup, PIN entry, close, and the upload,
\* download and delete of files; the clock only moves by whole lockouts and
\* the calculator keys are left out
FileNext ==
    \/ Activate
    \/ \E s \in Slots : InitializeVault(s)
    \/ Reload
    \/ Advance(LockoutMinutes)
    \/ StoreFail
    \/ StoreRecover
    \/ \E p \in {PinA, PinB} : validateAndProceed(p)
    \/ \E c \in {PinA, PinB} : handleConfirmPin(c)
    \/ \E s \in Slots : PinHashed(s)
    \/ \E s \in Slots : SetupStored(s)
    \/ \E s \in Slots : SessionCreated(s)
    \/ \E s \in Slots : FilesLoaded(s)
    \/ \E p \in {PinA, PinB} : TypePin(p)
    \/ handlePinSubmit
    \/ \E s \in Slots : PinVerified(s)
    \/ \E s \in Slots : SubmitStored(s)
    \/ handleClose
    \/ \E s \in Slots : SessionEnded(s)
    \/ handleFileUpload
    \/ \E s \in Slots : FileRead(s)
    \/ \E s \in Slots : FileEncrypted(s)
    \/ \E s \in Slots : MetadataStored(s)
    \/ \E s \in Slots : FileStored(s)
    \/ \E s \in Slots : FilesUpdated(s)
    \/ UploadsCleared
    \/ \E fileId \in FileIds : handleDownload(fileId)
    \/ \E s \in Slots : MetadataRead(s)
    \/ \E s \in Slots : FileDecrypted(s)
    \/ \E fileId \in FileIds : handleDelete(fileId)
    \/ \E s \in Slots : FileDeleted(s)
    \/ \E s \in Slots : MetadataCleared(s)

FileSpec == Init /\ [][FileNext]_vars

\* the vault with its FileManager, where the key derivation and the
\* encryption can also fail
CryptoNext ==
    \/ FileNext
    \/ \E s \in Slots : EncryptFailed(s)
    \/ \E s \in Slots : HashFailed(s)

CryptoSpec == Init /\ [][CryptoNext]_vars

\* the vault whose PIN entry is used while a submit is in flight; the store
\* works, the page is not reloaded and the clock stands still
OverlapNext ==
    \/ Activate
    \/ \E s \in Slots : InitializeVault(s)
    \/ validateAndProceed(PinA)
    \/ handleConfirmPin(PinA)
    \/ \E s \in Slots : PinHashed(s)
    \/ \E s \in Slots : SetupStored(s)
    \/ \E s \in Slots : SessionCreated(s)
    \/ \E s \in Slots : FilesLoaded(s)
    \/ \E p \in {PinA, PinB} : TypePin(p)
    \/ \E p \in {PinA, PinB} : TypePinDuringSubmit(p)
    \/ handlePinSubmit
    \/ handlePinSubmitOverlapping
    \/ \E s \in Slots : PinVerified(s)
    \/ \E s \in Slots : SubmitStored(s)
    \/ handleClose
    \/ \E s \in Slots : SessionEnded(s)

OverlapSpec == Init /\ [][OverlapNext]_vars

\* the vault and its PIN entry with digit keys pressed on the keyboard
KeyNext ==
    \/ OverlapNext
    \/ \E d \in KeyDigits : KeyPressed(d)
    \/ KeyHandled

KeySpec == Init /\ [][KeyNext]_vars

\* the session store under direct calls of its methods, with the clock
SessionNext ==
    \/ CallCreateSession
    \/ \E id \in SessionIds : CallUpdateSessionActivity(id)
    \/ \E id \in SessionIds : CallEndSession(id)
    \/ \E t \in Timeouts : CallCleanupExpiredSessions(t)
    \/ Advance(1)
    \/ StoreFail
    \/ StoreRecover

SessionSpec == Init /\ [][SessionNext]_vars

\* the session store with cleanupExpiredSessions called between the other
\* session methods
CleanupNext ==
    \/ CallCreateSessionAlone
    \/ \E id \in SessionIds : CallUpdateSessionActivityAlone(id)
    \/ \E id \in SessionIds : CallEndSessionAlone(id)
    \/ \E t \in Timeouts : CleanupStarted(t)
    \/ CleanupSettles
    \/ AdvanceBetweenCalls
    \/ StoreFail
    \/ StoreRecover

CleanupSpec == Init /\ [][CleanupNext]_vars

\* the object stores under direct calls of storePinConfig, storeFile,
\* setMetadata, createSession and clearAllData
ClearNext ==
    \/ CallStorePinConfig
    \/ \E id \in FileIds : CallStoreFile(id)
    \/ \E id \in FileIds : CallSetMetadata(id)
    \/ CallCreateSessionAlone
    \/ CallClearAllData
    \/ ClearRequestSettles
    \/ StoreFail
    \/ StoreRecover

ClearSpec == Init /\ [][ClearNext]_vars

\* encryptFile and decryptFile under direct calls
CipherNext ==
    \/ \E fileData \in Payloads, pin \in CipherPins :
          CallEncryptFile(fileData, pin)
    \/ \E encryptedData \in Ciphertexts, pin \in CipherPins,
          salt \in CipherSalts, iv \in CipherIvs :
          CallDecryptFile(encryptedData, pin, salt, iv)

CipherSpec == Init /\ [][CipherNext]_vars

\* hashPin, verifyPin and the comparison of verifyPin under direct calls
HashNext ==
    \/ \E pin \in SetupPins, k \in Salts : CallHashPin(pin, k)
    \/ \E pin \in CipherPins, storedHash \in StoredHashes :
          CallVerifyPin(pin, storedHash)
    \/ \E newKeyArray \in KeyArrays, storedKeyArray \in KeyArrays :
          CallCompareKeyData(newKeyArray, storedKeyArray)

HashSpec == Init /\ [][HashNext]_vars

\* createBackup and restoreFromBackup under direct calls
BackupNext ==
    \/ \E vaultData \in VaultStates, pin \in CipherPins :
          CallCreateBackup(vaultData, pin)
    \/ \E backupString \in BackupStrings, pin \in CipherPins :
          CallRestoreFromBackup(backupString, pin)

BackupSpec == Init /\ [][BackupNext]_vars

\* PinValidator: one direct call of validatePin or of generateSecurePin
PolicyInit ==
    /\ AppInit
    /\ call \in {ValidateCall(pin) : pin \in Candidates} \cup {GenerateCall}

PolicyNext ==
    \/ ValidatePinReturns
    \/ \E byte \in RandomBytes : DrawDigit(byte)
    \/ CandidateChecked

PolicySpec == PolicyInit /\ [][PolicyNext]_vars

\* crypto.getRandomValues is random: the loop and the check run on, and a
\* second digit that is neither the first digit nor next to it, which every
\* candidate can get, is drawn at some candidate
UnlikeFirstDrawn ==
    \E byte \in RandomBytes :
        /\ DrawDigit(byte)
        /\ Len(call.local.pin) = 1
        /\ \A d \in {0 - 1, 0, 1} : byte % NumDigits # call.local.pin[1] + d
FairPolicySpec ==
    /\ PolicySpec
    /\ WF_vars(ValidatePinReturns)
    /\ WF_vars(\E byte \in RandomBytes : DrawDigit(byte))
    /\ WF_vars(CandidateChecked)
    /\ SF_vars(UnlikeFirstDrawn)
\* every await settles, the countdown interval keeps firing while it exists,
\* and time passes (whenever no handler is in flight, which recurs)
Settle ==
    \E s \in Slots :
        \/ InitializeVault(s) \/ PinHashed(s) \/ SetupStored(s)
        \/ SessionCreated(s) \/ FilesLoaded(s) \/ PinVerified(s)
        \/ SubmitStored(s) \/ SessionEnded(s)
FairSpec ==
    Spec /\ WF_vars(Settle) /\ WF_vars(Tick) /\ SF_vars(Advance(1))

\* ================================================================ claims
\* now < persisted lockoutUntil
dbLockedOut ==
    /\ ~IsNull(dbPinConfig)
    /\ ~IsNull(Val(dbPinConfig).lockoutUntil)
    /\ Val(Val(dbPinConfig).lockoutUntil) > 0
\* the persisted lockoutUntil exists and is not in the future
dbLockoutExpired ==
    /\ ~IsNull(dbPinConfig)
    /\ Val(dbPinConfig).lockoutUntil = Some(0)
SubmitInFlight == \E s \in Slots : tasks[s].op = "submit"
\* task s resolves the await `from` and suspends on `to` ("" when it ends)
\* in the mounted component
Resolves(s, op, from, to) ==
    /\ tasks[s].op = op /\ tasks[s].pc = from
    /\ tasks'[s].pc = to
    /\ showVault'

C3_AttemptsOnlyResetBySuccess ==
    [][(/\ ~IsNull(dbPinConfig)
        /\ \/ IsNull(dbPinConfig')
           \/ Val(dbPinConfig').attempts < Val(dbPinConfig).attempts)
       => /\ ~IsNull(dbPinConfig')
          /\ Val(dbPinConfig').attempts = 0
          /\ \E s \in Slots : /\ Resolves(s, "submit", "storePinConfig",
                                          "createSession")
                              /\ tasks[s].valid
      ]_vars

C5_RelockAfterExpiry ==
    /\ []((~IsNull(dbPinConfig) /\ ~IsNull(Val(dbPinConfig).lockoutUntil))
             => Val(dbPinConfig).attempts >= MaxAttempts)
    /\ [][((dbLockedOut /\ dbLockoutExpired')
             \/ (ViewLockedOut /\ ViewPinInput'))
            => /\ ~IsNull(dbPinConfig')
               /\ Val(dbPinConfig').attempts = Val(dbPinConfig).attempts
               /\ Val(dbPinConfig').hash = Val(dbPinConfig).hash]_vars
    /\ [][\A s \in Slots :
            (/\ Resolves(s, "submit", "verifyPin", "storePinConfig")
             /\ ~tasks'[s].valid
             /\ dbLockoutExpired)
            => /\ Val(tasks'[s].upd).lockoutUntil = Some(LockoutMinutes)
               /\ Val(tasks'[s].upd).attempts > MaxAttempts
               /\ isLockedOut' /\ lockoutTime' = LockoutSeconds]_vars
C5_Witness ==
    /\ ViewLockedOut /\ lockoutTime = LockoutSeconds
    /\ \E s \in Slots :
         /\ tasks[s].op = "submit" /\ tasks[s].pc = "storePinConfig"
         /\ ~tasks[s].valid
         /\ Val(tasks[s].cfg).lockoutUntil = Some(0)
         /\ Val(tasks[s].cfg).attempts = MaxAttempts

C7_LockedOutFromClock ==
    (ViewPinEntry /\ Idle) => (isLockedOut <=> dbLockedOut)

\* C8: a lockout notice or an "Invalid PIN" message is on screen only when
\* the failed attempt it reports is in the store: the lockout notice only
\* with a persisted lockoutUntil and count >= 5, the message only with the
\* persisted count equal to the count displayed.
C8_PersistBeforeReport ==
    /\ ViewLockedOut =>
         /\ ~IsNull(dbPinConfig)
         /\ ~IsNull(Val(dbPinConfig).lockoutUntil)
         /\ Val(dbPinConfig).attempts >= MaxAttempts
    /\ (showVault /\ error.text = "Invalid PIN") =>
         /\ ~IsNull(dbPinConfig)
         /\ Val(dbPinConfig).attempts = attempts

\* C9: handlePinSetup is started only while no PinConfig is persisted, and a
\* persisted PinConfig is never removed nor its hash replaced.
C9_SetupOnlyInNoPin ==
    [][/\ (\E s \in Slots : tasks[s].op # "setup" /\ tasks'[s].op = "setup")
            => IsNull(dbPinConfig)
       /\ ~IsNull(dbPinConfig)
            => /\ ~IsNull(dbPinConfig')
               /\ Val(dbPinConfig').hash = Val(dbPinConfig).hash]_vars

\* C10: while the store is unavailable no step persists a PinConfig, creates
\* a session or unlocks the vault; a vault whose pinConfig could not be read
\* never has a submit in flight; and the calculator's key handler can always
\* take a key.
C10_NothingAcceptedWhileStoreDown ==
    /\ [][~storeUp => /\ IsNull(dbPinConfig') = IsNull(dbPinConfig)
                      /\ ~IsNull(dbPinConfig) =>
                           /\ Val(dbPinConfig').hash = Val(dbPinConfig).hash
                           /\ Val(dbPinConfig').attempts
                                = Val(dbPinConfig).attempts
                      /\ Len(dbSessions') = Len(dbSessions)
                      /\ \A i \in 1..Len(dbSessions) :
                           /\ dbSessions'[i].id = dbSessions[i].id
                           /\ dbSessions'[i].isActive = dbSessions[i].isActive
                      /\ isUnlocked' => isUnlocked]_vars
    /\ [](IsNull(pinConfig) => ~SubmitInFlight)
    /\ [](ENABLED (KeyEscape \/ \E d \in KeyDigits : KeyDigit(d)))
C10_Witness ==
    /\ ~storeUp
    /\ showVault /\ ~isLoading /\ IsNull(pinConfig)
    /\ error.text = "Failed to initialize vault"
    /\ \E s \in Slots : tasks[s].op = "setup" /\ tasks[s].pc = "storePinConfig"

\* C11: a PIN that violates the PIN policy is rejected by "Continue" with the
\* list of validation errors, and nothing is persisted and no setup is
\* started; setup is started, and a PinConfig persisted by it, only for a PIN
\* that passes the policy; the record persisted is the hash of that PIN with
\* attempts = 0 and lockoutUntil = null; then a session is created, active,
\* and in that step the vault becomes Unlocked.
C11_SetupValidates ==
    [][/\ (psInitialPin' # psInitialPin /\ psInitialPin' # <<>>
              /\ ~validatePin(psInitialPin').isValid) =>
             /\ psStep' = "initial"
             /\ psErrors' = validatePin(psInitialPin').errors
             /\ psErrors' # <<>>
             /\ UNCHANGED <<dbVars, dbFileVars, isUnlocked, tasks>>
       /\ \A s \in Slots :
             /\ (tasks[s].op # "setup" /\ tasks'[s].op = "setup") =>
                  validatePin(tasks'[s].pin).isValid
             /\ (tasks[s].op = "setup" /\ dbPinConfig' # dbPinConfig) =>
                  /\ validatePin(tasks[s].pin).isValid
                  /\ ~IsNull(dbPinConfig')
                  /\ verifyPin(tasks[s].pin, Val(dbPinConfig').hash)
                  /\ Val(dbPinConfig').attempts = 0
                  /\ IsNull(Val(dbPinConfig').lockoutUntil)
                  /\ dbSessions' = dbSessions /\ ~isUnlocked'
             /\ Resolves(s, "setup", "storePinConfig", "createSession") =>
                  dbPinConfig' = tasks[s].upd
             /\ Resolves(s, "setup", "createSession", "getAllFiles") =>
                  /\ Len(dbSessions') = Len(dbSessions) + 1
                  /\ dbSessions'[Len(dbSessions')].isActive
                  /\ currentSession' = Some(dbSessions'[Len(dbSessions')])
                  /\ ~isUnlocked /\ isUnlocked' /\ ViewUnlocked'
      ]_vars
C11_Witness ==
    /\ ViewUnlocked
    /\ \E s \in Slots :
         /\ tasks[s].op = "setup" /\ tasks[s].pc = "getAllFiles"
         /\ validatePin(tasks[s].pin).isValid
         /\ dbPinConfig = tasks[s].upd
    /\ ~IsNull(currentSession)

\* the keys file encryption derives from the PINs
FileKeys ==
    {generateKeyFromPin(p, encryptSalt(n)) : p \in SetupPins, n \in FileIds}

\* C12: the store holds at most one PinConfig record; that record holds the
\* salted hash (the salt and the key derived with that salt, which is no
\* file encryption key), the attempts count and lockoutUntil and nothing
\* else; a session record holds its id, dates and isActive, a file its id
\* and the ciphertext, a metadata record its key and null or {salt, iv}:
\* no record has a field for the PIN or for a derived key.
C12_NoPinOrKeyPersisted ==
    /\ Len(dbPinConfig) <= 1
    /\ ~IsNull(dbPinConfig) =>
         /\ DOMAIN Val(dbPinConfig) = {"hash", "attempts", "lockoutUntil"}
         /\ DOMAIN Val(dbPinConfig).hash = {"salt", "key"}
         /\ Val(dbPinConfig).hash.salt \in Salts
         /\ \E p \in SetupPins :
                Val(dbPinConfig).hash.key
                  = generateKeyFromPin(p, Val(dbPinConfig).hash.salt)
         /\ Val(dbPinConfig).hash.key \notin FileKeys
         /\ Val(dbPinConfig).attempts \in Nat
    /\ \A i \in 1..Len(dbSessions) :
         DOMAIN dbSessions[i]
           = {"id", "startTime", "lastActivity", "isActive"}
    /\ \A f \in dbFiles :
         /\ DOMAIN f = {"id", "encryptedData"}
         /\ f.id \in FileIds
         /\ DOMAIN Val(f.encryptedData) = {"key", "iv", "data"}
    /\ \A r \in dbMetadata :
         /\ DOMAIN r = {"key", "value"}
         /\ r.key \in FileIds
         /\ ~IsNull(r.value) =>
              /\ DOMAIN Val(r.value) = {"salt", "iv"}
              /\ Val(r.value).salt \in Nat
              /\ Val(r.value).iv \in Nat
C12_Witness ==
    /\ ~IsNull(dbPinConfig)
    /\ dbSessions # <<>>
    /\ \E f \in dbFiles :
         /\ ~IsNull(getMetadata(dbMetadata, f.id))
         /\ Val(f.encryptedData).key
               = generateKeyFromPin(currentPin,
                                    Val(getMetadata(dbMetadata, f.id)).salt)

\* C13: a FileManager handler is started only while the vault is Unlocked,
\* and every step in which a file record or a metadata record is created,
\* replaced or removed, or in which a download reads the metadata or
\* decrypts, is taken while the vault is Unlocked.
C13_FileOpsOnlyUnlocked ==
    [][(\/ dbFiles' # dbFiles
        \/ dbMetadata' # dbMetadata
        \/ \E s \in Slots :
              \/ /\ tasks[s].op = "idle"
                 /\ tasks'[s].op \in {"upload", "download", "delete"}
              \/ /\ tasks[s].op = "download"
                 /\ tasks'[s] # tasks[s])
       => ViewUnlocked]_vars

\* the metadata records of file f
MetadataOf(f) == {r \in dbMetadata : r.key = f.id}
\* a record with the salt and the iv the file was encrypted with
Usable(r, f) ==
    /\ ~IsNull(r.value)
    /\ \E p \in SetupPins :
         ~IsNull(decryptFile(Val(f.encryptedData), p,
                             Val(r.value).salt, Val(r.value).iv))

\* C14: in every state, also in the middle of an upload or a delete and
\* after a failed store request, every file record in the store has exactly
\* one metadata record, and it holds the salt and the iv the file was
\* encrypted with.
C14_FileHasMetadata ==
    \A f \in dbFiles :
        /\ Cardinality(MetadataOf(f)) = 1
        /\ \A r \in MetadataOf(f) : Usable(r, f)
C14_Witness ==
    /\ ViewUnlocked /\ Idle
    /\ fmError = DeleteError
    /\ ~storeUp
    /\ \E f \in dbFiles : \E r \in MetadataOf(f) : Usable(r, f)

\* C15: when a delete has removed the file record and its setMetadata
\* request has succeeded, no metadata record is left under the key of the
\* file; and a download of a file that is no longer in the store fails and
\* is reported.
C15_DeleteRemovesMetadata ==
    [][\A s \in Slots :
        /\ Resolves(s, "delete", "setMetadata", "getAllFiles") =>
             /\ \A f \in dbFiles' : f.id # Val(tasks[s].file).id
             /\ \A r \in dbMetadata' : r.key # Val(tasks[s].file).id
        /\ (/\ tasks[s].op = "download" /\ tasks'[s] # tasks[s]
            /\ showVault'
            /\ \A f \in dbFiles : f.id # Val(tasks[s].file).id
            /\ \E r \in dbMetadata :
                  r.key = Val(tasks[s].file).id /\ IsNull(r.value)) =>
             /\ tasks'[s].op = "idle"
             /\ fmError' = DownloadError
      ]_vars

\* C16: a delete whose setMetadata request fails after the file record was
\* removed is reported as failed; and a delete of a file whose record is
\* already gone (the retry), once its two requests have succeeded, leaves no
\* metadata record under the key of the file.
C16_DeleteRetry ==
    [][\A s \in Slots :
        /\ (Resolves(s, "delete", "setMetadata", "") /\ ~storeUp) =>
             /\ fmError' = DeleteError
             /\ files' = files
        /\ (/\ Resolves(s, "delete", "setMetadata", "getAllFiles")
            /\ fmError = DeleteError) =>
             \A r \in dbMetadata' : r.key # Val(tasks[s].file).id
      ]_vars

\* C17: no step of a download changes PinConfig, the sessions, the file
\* records or the metadata records, nor the attempts count and the lockout
\* the component shows; and a download that fails (the metadata cannot be
\* read or is missing, or the decryption fails because the PIN is not the
\* one the file was encrypted with) ends with the error message set.
C17_FailedDownloadChangesNothing ==
    [][\A s \in Slots :
        (tasks[s].op = "download" /\ tasks'[s] # tasks[s] /\ showVault') =>
          /\ UNCHANGED <<dbVars, dbFileVars, attempts, isLockedOut,
                         lockoutTime, pinConfig, currentSession>>
          /\ (tasks[s].pc = "getMetadata" /\ tasks'[s].op = "idle") =>
               /\ ~storeUp \/ IsNull(getMetadata(dbMetadata,
                                                  Val(tasks[s].file).id))
               /\ fmError' = DownloadError
          /\ (tasks[s].pc = "getMetadata" /\ tasks'[s].op # "idle") =>
               /\ storeUp
               /\ tasks'[s].meta = getMetadata(dbMetadata,
                                               Val(tasks[s].file).id)
               /\ ~IsNull(tasks'[s].meta)
          /\ tasks[s].pc = "decryptFile" =>
               /\ tasks'[s].op = "idle"
               /\ IF Val(Val(tasks[s].file).encryptedData).key
                      = generateKeyFromPin(tasks[s].pin,
                                           Val(tasks[s].meta).salt)
                  THEN fmError' = ""
                  ELSE fmError' = DownloadError
      ]_vars
C17_Witness ==
    /\ ViewUnlocked /\ Idle /\ storeUp
    /\ fmError = DownloadError
    /\ \E f \in files :
         /\ f \in dbFiles
         /\ \E r \in MetadataOf(f) : Usable(r, f)
         /\ Val(f.encryptedData).key.pin # currentPin

\* C18: when handleClose has run to its end (the endSession request has
\* settled), the session it closed is inactive and still in the store, no
\* session record was removed, the vault is closed and no longer Unlocked,
\* and the persisted attempts count is 0.
C18_CloseLocks ==
    [][\A s \in Slots :
        SessionEnded(s) =>
          /\ Len(dbSessions') = Len(dbSessions)
          /\ \A i \in 1..Len(dbSessions) :
                /\ dbSessions'[i].id = dbSessions[i].id
                /\ dbSessions[i].id = Val(tasks[s].sess).id
                     => ~dbSessions'[i].isActive
          /\ \E i \in 1..Len(dbSessions) :
                dbSessions[i].id = Val(tasks[s].sess).id
          /\ ~showVault' /\ ~isUnlocked'
          /\ ~IsNull(dbPinConfig') /\ Val(dbPinConfig').attempts = 0
      ]_vars

\* C19: no step removes a session record or changes its id, and a session
\* that is inactive stays inactive, whatever sequence of createSession,
\* updateSessionActivity, endSession and cleanupExpiredSessions is called.
C19_SessionsKept ==
    [][/\ Len(dbSessions') >= Len(dbSessions)
       /\ \A i \in 1..Len(dbSessions) :
            /\ dbSessions'[i].id = dbSessions[i].id
            /\ ~dbSessions[i].isActive => ~dbSessions'[i].isActive
      ]_vars
C19_Witness ==
    /\ Len(dbSessions) = MaxSessions
    /\ ~dbSessions[1].isActive
    /\ dbSessions[1].lastActivity < dbSessions[1].startTime
    /\ dbSessions[2].isActive
    /\ dbSessions[2].lastActivity > 0

\* session i is active and is not the current session of an open vault
Orphaned(i) ==
    /\ i <= Len(dbSessions)
    /\ dbSessions[i].isActive
    /\ ~showVault \/ IsNull(currentSession)
          \/ Val(currentSession).id # dbSessions[i].id

\* C20: a session that is active in the store without being the current
\* session of an open vault (the vault was left without a close) is
\* eventually marked inactive.
C20_SessionsEventuallyEnd ==
    \A i \in SessionIds :
        Orphaned(i) ~> (i <= Len(dbSessions) /\ ~dbSessions[i].isActive)

\* -------------------------------------------------------------------------
\* C21: when clearAllData settles, either it is fulfilled and the four
\* collections are empty, or it is rejected because the clear of one
\* collection failed and the error it is rejected with names that
\* collection; it is never fulfilled while a collection holds a record.
ClearSettles ==
    /\ call.fn = "clearAllData" /\ call.result = Pending
    /\ call'.result # Pending
C21_ClearAllOrNamedFailure ==
    [][ClearSettles =>
         IF Val(call'.result).ok
         THEN /\ dbFiles' = {} /\ dbPinConfig' = NULL
              /\ dbSessions' = <<>> /\ dbMetadata' = {}
         ELSE Val(call'.result).value.name
                  = stores[call.local.completed + 1]]_vars

\* -------------------------------------------------------------------------
\* C22: encryptFile takes only the data and the PIN from its caller and
\* draws the salt and the iv itself, so no two encryptions, of different
\* data or of the same data under the same PIN, use the same (salt, iv) pair.
C22_FreshSaltAndIv ==
    \A i, j \in 1..Len(encryptions) :
        i # j => <<encryptions[i].salt, encryptions[i].iv>>
                    # <<encryptions[j].salt, encryptions[j].iv>>
\* the same data has been encrypted twice under the same PIN
C22_Witness ==
    /\ Len(encryptions) = 2
    /\ encryptions[1].encryptedData.data = encryptions[2].encryptedData.data
    /\ encryptions[1].encryptedData.key.pin
          = encryptions[2].encryptedData.key.pin

\* the call is decryptFile of the i-th encryption's output with the PIN,
\* the salt and the iv of that encryption
DecryptsEncryption(i) ==
    /\ call.fn = "decryptFile"
    /\ call.args[1] = encryptions[i].encryptedData
    /\ call.args[2] = encryptions[i].encryptedData.key.pin
    /\ call.args[3] = encryptions[i].salt
    /\ call.args[4] = encryptions[i].iv

\* C23: decrypting what encryptFile(b, p) returned, with p and the salt and
\* iv returned, gives exactly b.
C23_RoundTrip ==
    \A i \in 1..Len(encryptions) :
        DecryptsEncryption(i)
            => /\ Val(call.result).ok
               /\ Val(call.result).value = encryptions[i].encryptedData.data
C23_Witness ==
    /\ Len(encryptions) = 2
    /\ DecryptsEncryption(2)
    /\ Val(call.result).ok
    /\ Val(call.result).value = "other"

\* C24: decryptFile with another PIN than the one of the encryption, or with
\* a modified ciphertext, salt or iv, returns no data; it is rejected with
\* the one DecryptionError, whatever was wrong.
C24_WrongPinOrModifiedFails ==
    (/\ call.fn = "decryptFile"
     /\ ~\E i \in 1..Len(encryptions) : DecryptsEncryption(i))
        => /\ ~Val(call.result).ok
           /\ Val(call.result).value = DecryptionError
\* the output of an encryption has been decrypted with the other PIN
C24_Witness ==
    /\ call.fn = "decryptFile"
    /\ call.args[1] = encryptions[1].encryptedData
    /\ call.args[2] # encryptions[1].encryptedData.key.pin
    /\ call.args[3] = encryptions[1].salt
    /\ call.args[4] = encryptions[1].iv
    /\ ~Val(call.result).ok
    /\ Val(call.result).value = DecryptionError

\* -------------------------------------------------------------------------
\* C25: hashPin of a policy-valid PIN returns a hash, and verifyPin of a PIN
\* and the hash of a PIN p is true when the PIN is p and false otherwise.
C25_VerifyAcceptsOnlyHashedPin ==
    /\ (call.fn = "hashPin" /\ validatePin(call.args[1]).isValid)
          => Val(call.result).ok
    /\ (call.fn = "verifyPin"
          /\ call.args[2] = SaltedHash(PinA, SaltBytes(1)))
          => /\ Val(call.result).ok
             /\ Val(call.result).value = (call.args[1] = PinA)

\* the key part of a stored hash: what follows its first SaltLength bytes
StoredKeyPart(storedHash) ==
    SubSeq(Val(base64ToArrayBuffer(storedHash)), SaltLength + 1,
           Len(Val(base64ToArrayBuffer(storedHash))))
Malformed(storedHash) ==
    \/ IsNull(base64ToArrayBuffer(storedHash))
    \/ Len(StoredKeyPart(storedHash)) # KeyLength

\* C26: verifyPin of a stored hash that cannot be decoded, or whose key part
\* has not the length of a derived key, returns false for every PIN and
\* throws nothing.
C26_MalformedHashIsFalse ==
    (call.fn = "verifyPin" /\ Malformed(call.args[2]))
        => /\ Val(call.result).ok
           /\ Val(call.result).value = FALSE
\* verifyPin has returned false for a hash whose key part is one byte short
C26_Witness ==
    /\ call.fn = "verifyPin"
    /\ ~IsNull(base64ToArrayBuffer(call.args[2]))
    /\ Len(StoredKeyPart(call.args[2])) = KeyLength - 1
    /\ Val(call.result).ok
    /\ Val(call.result).value = FALSE

\* C27: on two byte arrays of equal length the comparison of verifyPin runs
\* its loop body once for every position, wherever and whether they differ,
\* and it returns true exactly when the two arrays are equal.
C27_ComparisonVisitsEveryByte ==
    call.fn = "compareKeyData"
        => /\ Len(call.args[1]) = Len(call.args[2])
                => call.local.steps = Len(call.args[1])
           /\ Val(call.result).value = (call.args[1] = call.args[2])
\* two keys that differ in their first byte have been compared to the end
C27_Witness ==
    /\ call.fn = "compareKeyData"
    /\ Len(call.args[1]) = KeyLength
    /\ Len(call.args[2]) = KeyLength
    /\ call.args[1][1] # call.args[2][1]
    /\ call.local.steps = KeyLength
    /\ Val(call.result).value = FALSE

\* -------------------------------------------------------------------------
\* validatePin has returned
Validated == call.fn = "validatePin" /\ call.result # Pending
\* the rules of the PIN policy that a candidate string violates: the error
\* of each, in the order validate reports them
ViolatedRules(pin) ==
    LET rules == <<"too short", "too long", "not digits", "too weak">>
        violated(r) ==
            \/ r = "too short" /\ Len(pin) < 4
            \/ r = "too long" /\ Len(pin) > 20
            \/ r = "not digits"
                 /\ ~(Len(pin) >= 1 /\ \A i \in 1..Len(pin) : pin[i] \in 0..9)
            \/ r = "too weak" /\ isWeakPin(pin)
    IN SelectSeq(rules, violated)

\* C28: validate returns exactly one error for each rule the candidate
\* violates (shorter than 4, longer than 20, not digits only, a weak
\* pattern), all of them together, and valid is true exactly when no rule
\* is violated.
C28_AllViolatedRulesReported ==
    Validated
        => /\ Val(call.result).value.errors = ViolatedRules(call.args[1])
           /\ Val(call.result).value.isValid
                 <=> ViolatedRules(call.args[1]) = <<>>
\* a candidate that violates three rules has been validated
C28_Witness ==
    /\ Validated
    /\ Len(Val(call.result).value.errors) = 3

\* -------------------------------------------------------------------------
\* the candidate begins with the four digits first, first + step, ...,
\* taken modulo 10
BeginsWithRun(pin, first, step) ==
    /\ Len(pin) >= 4
    /\ \A i \in 1..4 : pin[i] = (first + step * (i - 1)) % 10
\* validate has reported a weak-pattern error exactly when the validated
\* string of digits is one digit repeated, or begins with an ascending run
\* whose first digit is in ascending, or with a descending run whose first
\* digit is in descending
WeakExactlyFor(ascending, descending) ==
    (Validated /\ \A i \in 1..Len(call.args[1]) : call.args[1][i] \in 0..9)
        => LET pin == call.args[1]
               errors == Val(call.result).value.errors
           IN (\E i \in 1..Len(errors) : errors[i] = "too weak")
                 <=> \/ Len(pin) >= 2 /\ \A i \in 1..Len(pin) : pin[i] = pin[1]
                     \/ \E first \in ascending : BeginsWithRun(pin, first, 1)
                     \/ \E first \in descending :
                           BeginsWithRun(pin, first, 0 - 1)
\* "1234", "0000" and "9876" are invalid, "1357" is valid
WeakExamples ==
    Validated
        => /\ call.args[1] \in {<<1, 2, 3, 4>>, <<0, 0, 0, 0>>, <<9, 8, 7, 6>>}
                => Val(call.result).value.errors = <<"too weak">>
           /\ call.args[1] = <<1, 3, 5, 7>> => Val(call.result).value.isValid

\* C29 (as stated): the weak-pattern error is reported exactly for one digit
\* repeated, for the ten ascending runs and for the ten descending runs of
\* four digits at the start (ten runs: one for each first digit).
C29_TenRunsEachWay ==
    WeakExactlyFor(0..9, 0..9) /\ WeakExamples
\* C29 (corrected): the weak-pattern error is reported exactly for one digit
\* repeated, for the seven ascending runs 0123..6789 and for the seven
\* descending runs 9876..3210 at the start; "1234", "0000" and "9876" are
\* invalid and "1357" is valid.
C29_SevenRunsEachWay ==
    WeakExactlyFor(0..6, 3..9) /\ WeakExamples
\* the last descending run, followed by more digits, has been reported weak
C29_Witness ==
    /\ Validated
    /\ call.args[1] = <<4, 3, 2, 1, 0, 9>>
    /\ Val(call.result).value.errors = <<"too weak">>

\* -------------------------------------------------------------------------
Generating == call.fn = "generateSecurePin" /\ call.result = Pending
Generated == call.fn = "generateSecurePin" /\ call.result # Pending

\* C30: a PIN that generateSecurePin returns has exactly 6 digits and
\* validate reports no error for it, whatever bytes were drawn; a weak
\* candidate is dropped and a new one is drawn from the start; and
\* generateSecurePin returns.
C30_GeneratedPinIsValid ==
    /\ [](Generated
            => /\ Len(Val(call.result).value) = 6
               /\ validatePin(Val(call.result).value)
                     = [isValid |-> TRUE, errors |-> <<>>])
    /\ [][(/\ Generating
           /\ Len(call.local.pin) = GeneratedPinLength
           /\ isWeakPin(call.local.pin))
             => call'.result = Pending /\ call'.local.pin = <<>>]_vars
    /\ (Generating ~> Generated)
\* a PIN has been returned after a weak candidate was dropped
C30_Witness ==
    /\ Generated
    /\ call.local.discarded

\* -------------------------------------------------------------------------
\* C31: each digit that generateSecurePin draws is uniform over 0..9: of the
\* 256 values the random byte can have, as many give one digit as any other.
C31_DigitsDrawnUniformly ==
    (call.fn = "generateSecurePin" /\ call.local.pin # <<>>)
        => LET count == [digit \in 0..(NumDigits - 1) |->
                            Cardinality(BytesDrawing(digit))]
           IN  \A digit \in 0..(NumDigits - 1) :
                   count[digit] = count[call.local.pin[1]]

\* -------------------------------------------------------------------------
Restored == call.fn = "restoreFromBackup"
\* the envelope passed lacks version or ciphertext
LacksField(backupString) ==
    /\ backupString.json
    /\ IsNull(backupString.version) \/ IsNull(backupString.encrypted)
\* the envelope passed is complete, and the PIN is not the one of the backup
\* or the ciphertext was changed
WrongPinOrCorrupted(backupString, pin) ==
    /\ backupString.json
    /\ ~LacksField(backupString)
    /\ IsNull(decryptFile(Val(backupString.encrypted), pin,
                          backupString.salt, backupString.iv))

\* C32: restoreFromBackup fails with the format error when the envelope
\* lacks version or ciphertext and with the decryption error when the PIN is
\* wrong or the envelope corrupted, and the two are different errors: the
\* error of an envelope lacking a field is not the error that any envelope
\* gets for a wrong PIN or a corrupted ciphertext.
C32_FormatAndDecryptionErrorsDiffer ==
    (Restored /\ LacksField(call.args[1]))
        => /\ ~Val(call.result).ok
           /\ \A backupString \in BackupStrings, pin \in CipherPins :
                 WrongPinOrCorrupted(backupString, pin)
                     => /\ ~Val(restoreFromBackup(backupString, pin)).ok
                        /\ Val(restoreFromBackup(backupString, pin)).value
                              # Val(call.result).value

\* C33: for every vault state s and PIN p, restoreFromBackup of
\* createBackup(s, p) with p returns a value equal to s, also for the states
\* that exportData returns (file records with their encrypted bytes and
\* dates, the PinConfig with its lockoutUntil).
C33_RestoreReproducesState ==
    Restored
        => \A vaultData \in VaultStates, n \in 1..MaxEncryptions :
              call.args[1] = createBackup(vaultData, call.args[2], n)
                  => /\ Val(call.result).ok
                     /\ Val(call.result).value = vaultData

\* -------------------------------------------------------------------------
\* the handler in slot s is waiting for its cryptographic operation
AtCrypto(s) ==
    \/ tasks[s].op = "upload" /\ tasks[s].pc \in {"arrayBuffer", "encryptFile"}
    \/ tasks[s].op = "setup" /\ tasks[s].pc = "hashPin"
\* ... and this step ends it there: the operation failed, or the page was
\* reloaded while it ran
CryptoEndsWithoutResult(s) ==
    /\ AtCrypto(s)
    /\ tasks'[s].op = "idle"

\* C34: no record is written before the cryptographic operation it depends
\* on has succeeded.  A metadata record (one that holds a salt and an iv) or
\* a file record is only added by an upload whose encryptFile has returned, and it holds what encryptFile
\* returned; a PinConfig is only first written by a setup whose hashPin has
\* returned, and it holds that hash; and a step in which a handler's
\* encryption or hashing fails or is abandoned changes none of the four
\* collections.
C34_WritesFollowCrypto ==
    [][/\ \A r \in {m \in dbMetadata' \ dbMetadata : ~IsNull(m.value)} :
             \E s \in Slots :
                /\ tasks[s].op = "upload" /\ tasks[s].pc = "setMetadata"
                /\ ~IsNull(Val(tasks[s].file).encryptedData)
                /\ LET enc == encryptFile("bytes", tasks[s].pin,
                                          Val(tasks[s].file).id)
                   IN r = [key |-> Val(tasks[s].file).id,
                           value |-> Some([salt |-> enc.salt, iv |-> enc.iv])]
       /\ \A f \in dbFiles' \ dbFiles :
             \E s \in Slots :
                /\ tasks[s].op = "upload" /\ tasks[s].pc = "storeFile"
                /\ f = [id |-> Val(tasks[s].file).id,
                        encryptedData |->
                            Some(encryptFile("bytes", tasks[s].pin,
                                             Val(tasks[s].file).id)
                                     .encryptedData)]
       /\ (IsNull(dbPinConfig) /\ ~IsNull(dbPinConfig'))
             => \E s \in Slots, salt \in Salts :
                   /\ tasks[s].op = "setup" /\ tasks[s].pc = "storePinConfig"
                   /\ Val(dbPinConfig').hash = hashPin(tasks[s].pin, salt)
       /\ (\E s \in Slots : CryptoEndsWithoutResult(s))
             => UNCHANGED <<dbPinConfig, dbSessions, dbFiles, dbMetadata>>
      ]_vars
\* a PinConfig and a file have been written, and a later upload has failed
C34_Witness ==
    /\ ~IsNull(dbPinConfig)
    /\ dbFiles # {}
    /\ dbMetadata # {}
    /\ uploadProgress = "error"
    /\ storeUp

\* -------------------------------------------------------------------------
\* this step is the end of a failed submit: the handler in slot s has stored
\* its updated PinConfig and reports the invalid PIN
FailedSubmitStored(s) ==
    /\ tasks[s].op = "submit" /\ tasks[s].pc = "storePinConfig"
    /\ ~tasks[s].valid
    /\ tasks'[s].op = "idle"
    /\ dbPinConfig' = tasks[s].upd

\* C35: no failed attempt is lost when submits of a wrong PIN overlap: each
\* failed submit that completes leaves the persisted attempts one higher
\* than it was just before its write, so that two of them leave it two
\* higher.
C35_EveryFailedSubmitCounts ==
    [][\A s \in Slots :
          FailedSubmitStored(s)
              => Val(dbPinConfig').attempts = Val(dbPinConfig).attempts + 1
      ]_vars

\* C36: whenever the vault is unlocked, the PIN that SecretVault hands to
\* FileManager (currentPin) is the PIN that was verified against the stored
\* hash, or the PIN just set up: it matches the hash of the PinConfig.
C36_FileManagerGetsVerifiedPin ==
    ViewUnlocked
        => /\ ~IsNull(pinConfig)
           /\ verifyPin(currentPin, Val(pinConfig).hash)

\* the stored sessions that are active
ActiveSessions == {i \in 1..Len(dbSessions) : dbSessions[i].isActive}

\* C37: a vault instance has at most one active session at a time, and
\* after the close none of its sessions is still active.  (The page is not
\* reloaded and the store works, so every instance before the current one
\* was closed: the active sessions are those of the current instance.)
C37_OneActiveSession ==
    /\ Cardinality(ActiveSessions) <= 1
    /\ ~showVault => ActiveSessions = {}

\* C38: a failed submit reports a number of attempts remaining only while
\* the vault stays locked, that is while the new count is below 5, and the
\* number is then 5 minus the new count (never negative); a failed submit
\* whose new count is 5 or more (it triggers a lockout, the first time or
\* after a lockout has expired) reports no attempts-remaining figure.
C38_RemainingOnlyBelowFive ==
    [][\A s \in Slots :
          FailedSubmitStored(s)
              => LET newAttempts == Val(dbPinConfig').attempts
                 IN IF newAttempts < MaxAttempts
                    THEN /\ error'.text = "Invalid PIN"
                         /\ error'.remaining = MaxAttempts - newAttempts
                         /\ error'.remaining >= 0
                    ELSE error'.text # "Invalid PIN"
      ]_vars

\* -------------------------------------------------------------------------
\* this step is the end of a cleanupExpiredSessions that succeeded
CleanupDone ==
    /\ call.fn = "cleanupExpiredSessions" /\ call.result = Pending
    /\ call'.result # Pending
    /\ Val(call'.result).ok

\* C39: cleanupExpiredSessions(t) deletes no session, sets isActive to
\* false on the sessions whose lastActivity is more than t minutes ago, and
\* changes nothing else: every other session and every other field is as it
\* was.
C39_CleanupMarksExactlyExpired ==
    [][CleanupDone =>
          /\ Len(dbSessions') = Len(dbSessions)
          /\ \A i \in 1..Len(dbSessions) :
                dbSessions'[i] =
                    [dbSessions[i] EXCEPT
                        !.isActive = IF dbSessions[i].lastActivity > call.args[1]
                                     THEN FALSE ELSE @]
      ]_vars
\* a cleanup with timeout 1 has ended with a session last used 2 minutes ago
\* inactive and a session last used exactly 1 minute ago still active
C39_Witness ==
    /\ call.fn = "cleanupExpiredSessions"
    /\ call.args = <<1>>
    /\ call.result # Pending
    /\ Val(call.result).ok
    /\ Len(dbSessions) = 2
    /\ dbSessions[1].lastActivity = 2 /\ ~dbSessions[1].isActive
    /\ dbSessions[2].lastActivity = 1 /\ dbSessions[2].isActive

\* -------------------------------------------------------------------------
\* this step is the handling of a key press
KeyPressHandled ==
    /\ call.fn = "keydown" /\ call.result = Pending
    /\ call'.result # Pending

\* C40: while the vault is shown, a key press leaves the state of the
\* calculator engine as it was and is not kept from the vault: a digit
\* typed with the PIN input in focus is entered into the PIN.
C40_KeysGoToVaultOnly ==
    [][(KeyPressHandled /\ showVault)
          => /\ display' = display
             /\ ViewPinInput => currentPin' = Append(currentPin, call.args[1])
      ]_vars

====
